---------------------------- MODULE Spec2Model ----------------------------
(***************************************************************************)
(* FinSight: French-method amortization schedules with extraordinary       *)
(* payments (backend/calculos.py, backend/abonos.py).                      *)
(*                                                                         *)
(* Python floats are modelled as exact rationals <<num, den>> (den > 0,    *)
(* lowest terms).  Every arithmetic step of the source is performed on     *)
(* them; the emitted columns are rounded to integer cents exactly as       *)
(* redondear_decimal does (ROUND_HALF_UP, two decimals).  The inputs are   *)
(* drawn from the values whose rate conversion is exact over the rationals *)
(* and whose intermediate products fit TLC's 32-bit integers.              *)
(***************************************************************************)
EXTENDS Integers, Sequences, FiniteSets, TLC

(***************************************************************************)
(* Bounds of the model.                                                    *)
(***************************************************************************)
\* largest number of periods of a generated schedule
MaxPeriodos == 30
\* largest (numerator of 1 + tasa_periodo) ^ n_periodos that is computed
MaxPotencia == 100
\* longest list of extraordinary payments
MaxAbonos == 2
\* extraordinary payments fall in periods 1..MaxPeriodoAbono or in the last one
MaxPeriodoAbono == 2
\* largest annual rate, in percent, of the credits whose period rate is a root
MaxTasaConRaiz == 12

(***************************************************************************)
(* Float arithmetic, as exact rationals.                                   *)
(***************************************************************************)
Abs(i) == IF i < 0 THEN -i ELSE i

RECURSIVE GCD(_, _)
GCD(a, b) == IF b = 0 THEN a ELSE GCD(b, a % b)

\* the rational n/d (d # 0) in lowest terms with a positive denominator
Rat(n, d) ==
    LET s == IF d < 0 THEN -1 ELSE 1
        g == GCD(Abs(n), Abs(d))
    IN  <<(s * n) \div g, Abs(d) \div g>>

Ent(i) == <<i, 1>>

Cero == Ent(0)
Uno == Ent(1)

RNeg(x) == <<-x[1], x[2]>>

RSuma(x, y) ==
    LET g == GCD(x[2], y[2])
        l == (x[2] \div g) * y[2]
    IN  Rat(x[1] * (l \div x[2]) + y[1] * (l \div y[2]), l)

RResta(x, y) == RSuma(x, RNeg(y))

RMul(x, y) ==
    LET g1 == GCD(Abs(x[1]), y[2])
        g2 == GCD(Abs(y[1]), x[2])
    IN  Rat((x[1] \div g1) * (y[1] \div g2), (x[2] \div g2) * (y[2] \div g1))

\* x / y for y # 0 (a zero divisor is a ZeroDivisionError, see the callers)
RDiv(x, y) == RMul(x, Rat(y[2], y[1]))

RMenor(x, y) == RResta(x, y)[1] < 0
RMenorIgual(x, y) == RResta(x, y)[1] <= 0
RAbs(x) == <<Abs(x[1]), x[2]>>
RMax(x, y) == IF RMenor(x, y) THEN y ELSE x

\* x ** k for an integer k (x # 0 when k < 0)
RECURSIVE RPotNat(_, _)
RPotNat(x, k) ==
    IF k = 0 THEN Uno
    ELSE LET h == RPotNat(x, k \div 2)
             hh == RMul(h, h)
         IN  IF k % 2 = 0 THEN hh ELSE RMul(hh, x)

RPot(x, k) == IF k < 0 THEN RDiv(Uno, RPotNat(x, -k)) ELSE RPotNat(x, k)

\* int(x): truncation toward zero
Truncar(x) == IF x[1] >= 0 THEN x[1] \div x[2] ELSE -((-x[1]) \div x[2])

\* a ^ k for naturals, saturated at cap + 1
RECURSIVE PotSatDesde(_, _, _, _)
PotSatDesde(a, k, cap, acc) ==
    IF k = 0 \/ a = 1 THEN acc
    ELSE IF acc * a > cap THEN cap + 1
    ELSE PotSatDesde(a, k - 1, cap, acc * a)

PotSat(a, k, cap) == PotSatDesde(a, k, cap, 1)

\* a is the q-th power of a natural number
EsPotenciaExacta(a, q) == \E y \in 1..a : PotSat(y, q, a) = a
RaizExacta(a, q) == CHOOSE y \in 1..a : PotSat(y, q, a) = a

\* x ** e for a rational exponent e = p/q > 0 and a base x >= 1 whose q-th
\* root is rational
RPotRacional(x, e) ==
    IF x = Uno THEN Uno
    ELSE RPot(<<RaizExacta(x[1], e[2]), RaizExacta(x[2], e[2])>>, e[1])

(***************************************************************************)
(* backend/calculos.py                                                     *)
(***************************************************************************)
Frecuencias ==
    {"diaria", "quincenal", "mensual", "bimestral",
     "trimestral", "cuatrimestral", "semestral", "anual"}

\* a faulty table of frequencies: "anual" lasts the 6 months of "semestral"
FrecuenciasAnualSemestral ==
    [f \in Frecuencias |->
        CASE f = "diaria" -> Rat(1, 30)
          [] f = "quincenal" -> Rat(1, 2)
          [] f = "mensual" -> Ent(1)
          [] f = "bimestral" -> Ent(2)
          [] f = "trimestral" -> Ent(3)
          [] f = "cuatrimestral" -> Ent(4)
          [] f = "semestral" -> Ent(6)
          [] f = "anual" -> Ent(6)]

\* frequency -> months
FRECUENCIAS ==
    [f \in Frecuencias |->
        CASE f = "diaria" -> Rat(1, 30)
          [] f = "quincenal" -> Rat(1, 2)
          [] f = "mensual" -> Ent(1)
          [] f = "bimestral" -> Ent(2)
          [] f = "trimestral" -> Ent(3)
          [] f = "cuatrimestral" -> Ent(4)
          [] f = "semestral" -> Ent(6)
          [] f = "anual" -> Ent(12)]

\* ie = (1 + in/m)^m - 1
convertir_nominal_a_efectiva(tasa_nominal, m) ==
    RResta(RPot(RSuma(Uno, RDiv(tasa_nominal, Ent(m))), m), Uno)

\* iv = ia / (1 + ia)
convertir_anticipada_a_vencida(tasa_anticipada) ==
    RDiv(tasa_anticipada, RSuma(Uno, tasa_anticipada))

\* (1 + tasa)^(meses_destino / meses_origen) - 1
convertir_tasa_efectiva(tasa, frecuencia_origen, frecuencia_destino) ==
    LET meses_origen == FRECUENCIAS[frecuencia_origen]
        meses_destino == FRECUENCIAS[frecuencia_destino]
    IN  RResta(RPotRacional(RSuma(Uno, tasa), RDiv(meses_destino, meses_origen)), Uno)

\* the call raises ZeroDivisionError: principal / 0, or a zero denominator
\* (1 + r)^n - 1 of the annuity formula
cuota_frances_falla(principal, tasa_periodo, n_periodos) ==
    IF tasa_periodo = Cero THEN n_periodos = 0
    ELSE RResta(RPot(RSuma(Uno, tasa_periodo), n_periodos), Uno) = Cero

\* a faulty installment: the principal in equal parts, the interest forgotten
calcular_cuota_sin_interes(principal, tasa_periodo, n_periodos) ==
    RDiv(principal, Ent(n_periodos))

\* C = P * [r * (1 + r)^n] / [(1 + r)^n - 1], and P / n when r = 0
calcular_cuota_frances(principal, tasa_periodo, n_periodos) ==
    IF tasa_periodo = Cero THEN RDiv(principal, Ent(n_periodos))
    ELSE LET f == RPot(RSuma(Uno, tasa_periodo), n_periodos)
         IN  RDiv(RMul(principal, RMul(tasa_periodo, f)), RResta(f, Uno))

\* Decimal(str(valor)).quantize(0.01, ROUND_HALF_UP), as a number of cents
redondear_decimal(valor) ==
    LET n == Abs(valor[1])
        d == valor[2]
        c == (n \div d) * 100 + ((n % d) * 200 + d) \div (2 * d)
    IN  IF valor[1] < 0 THEN -c ELSE c

\* the tolerance 0.01 of the loops
Tolerancia == Rat(1, 100)


(***************************************************************************)
(* Inputs.                                                                 *)
(***************************************************************************)
Montos == {Rat(1, 100), Ent(300), Ent(1000)}
Tasas == {0, 50, 100}
Plazos == {1, 3, 6, 12, 24}
MontosAbono == {100, 400, 2000}

ParametrosCredito ==
    [monto : Montos, tasa : Tasas, tipo_tasa : {"nominal", "efectiva"},
     tipo_pago : {"anticipada", "vencida"}, plazo_meses : Plazos,
     frecuencia_pago : Frecuencias, frecuencia_tasa : Frecuencias]

(***************************************************************************)
(* generar_tabla_amortizacion, steps 1 to 3: the rate of one payment period *)
(***************************************************************************)
\* m_map.get(frecuencia_tasa, 12)
CapitalizacionesPorAnio(frecuencia_tasa) ==
    CASE frecuencia_tasa = "mensual" -> 12
      [] frecuencia_tasa = "trimestral" -> 4
      [] frecuencia_tasa = "semestral" -> 2
      [] frecuencia_tasa = "anual" -> 1
      [] OTHER -> 12

\* steps 1 and 2: nominal -> effective, anticipated -> due
TasaEfectivaAnual(p) ==
    LET tasa_decimal == Rat(p.tasa, 100)
        efectiva ==
            IF p.tipo_tasa = "nominal"
            THEN convertir_nominal_a_efectiva(
                     tasa_decimal, CapitalizacionesPorAnio(p.frecuencia_tasa))
            ELSE tasa_decimal
    IN  IF p.tipo_pago = "anticipada"
        THEN convertir_anticipada_a_vencida(efectiva)
        ELSE efectiva

\* step 3: both branches of the source call convertir_tasa_efectiva with
\* frecuencia_tasa as the origin ("anual" when frecuencia_tasa = "anual")
TasaPeriodo(p) ==
    IF p.frecuencia_tasa = "anual"
    THEN convertir_tasa_efectiva(TasaEfectivaAnual(p), "anual", p.frecuencia_pago)
    ELSE convertir_tasa_efectiva(
             TasaEfectivaAnual(p), p.frecuencia_tasa, p.frecuencia_pago)

\* n_periodos = int(plazo_meses / meses_por_periodo)
NumeroPeriodos(p) ==
    Truncar(RDiv(Ent(p.plazo_meses), FRECUENCIAS[p.frecuencia_pago]))

\* int(meses_por_periodo * 30)
DiasASumar(frecuencia_pago) ==
    Truncar(RMul(FRECUENCIAS[frecuencia_pago], Ent(30)))

(***************************************************************************)
(* The inputs of the model: the credit parameters whose period rate is an  *)
(* exact rational and whose powers stay within MaxPotencia.                *)
(***************************************************************************)
EnDominio(p) ==
    LET m == CapitalizacionesPorAnio(p.frecuencia_tasa)
        porCapitalizacion == RSuma(Uno, RDiv(Rat(p.tasa, 100), Ent(m)))
        base == RSuma(Uno, TasaEfectivaAnual(p))
        e == RDiv(FRECUENCIAS[p.frecuencia_pago], FRECUENCIAS[p.frecuencia_tasa])
        n == NumeroPeriodos(p)
    IN  /\ n <= MaxPeriodos
        /\ p.tipo_tasa = "nominal" =>
               PotSat(porCapitalizacion[1], m, MaxPotencia) <= MaxPotencia
        /\ \/ base = Uno
           \/ /\ EsPotenciaExacta(base[1], e[2])
              /\ EsPotenciaExacta(base[2], e[2])
              /\ PotSat(RaizExacta(base[1], e[2]), e[1], MaxPotencia) <= MaxPotencia
        /\ PotSat(RSuma(Uno, TasaPeriodo(p))[1], n, MaxPotencia) <= MaxPotencia


(***************************************************************************)
(* Naturals of any size, as sequences of digits in base 10000, the lowest  *)
(* digit first and no leading zero digit (0 is the empty sequence).  They  *)
(* decide exactly the comparisons that settle how a float expression with  *)
(* a q-th root rounds.                                                     *)
(***************************************************************************)
RECURSIVE BigDe(_)
BigDe(n) == IF n = 0 THEN <<>> ELSE <<n % 10000>> \o BigDe(n \div 10000)

RECURSIVE BigSumaDesde(_, _, _, _)
BigSumaDesde(a, b, i, acarreo) ==
    IF i > Len(a) /\ i > Len(b)
    THEN IF acarreo = 0 THEN <<>> ELSE <<acarreo>>
    ELSE LET t == (IF i <= Len(a) THEN a[i] ELSE 0)
                  + (IF i <= Len(b) THEN b[i] ELSE 0) + acarreo
             resto == BigSumaDesde(a, b, i + 1, t \div 10000)
         IN  <<t % 10000>> \o resto

BigSuma(a, b) == BigSumaDesde(a, b, 1, 0)

RECURSIVE BigPorDigitoDesde(_, _, _, _)
BigPorDigitoDesde(a, d, i, acarreo) ==
    IF i > Len(a)
    THEN BigDe(acarreo)
    ELSE LET t == a[i] * d + acarreo
             resto == BigPorDigitoDesde(a, d, i + 1, t \div 10000)
         IN  <<t % 10000>> \o resto

BigPorDigito(a, d) == IF d = 0 \/ a = <<>> THEN <<>> ELSE BigPorDigitoDesde(a, d, 1, 0)

RECURSIVE BigMul(_, _)
BigMul(a, b) ==
    IF a = <<>> \/ b = <<>> THEN <<>>
    ELSE LET bajo == BigPorDigito(a, b[1])
             alto == BigMul(a, Tail(b))
         IN  IF alto = <<>> THEN bajo ELSE BigSuma(bajo, <<0>> \o alto)

RECURSIVE BigPot(_, _)
BigPot(a, k) ==
    IF k = 0 THEN <<1>>
    ELSE LET h == BigPot(a, k \div 2)
             hh == BigMul(h, h)
         IN  IF k % 2 = 0 THEN hh ELSE BigMul(hh, a)

RECURSIVE BigMenorIgualDesde(_, _, _)
BigMenorIgualDesde(a, b, i) ==
    IF i = 0 THEN TRUE
    ELSE IF a[i] # b[i] THEN a[i] < b[i]
    ELSE BigMenorIgualDesde(a, b, i - 1)

BigMenorIgual(a, b) ==
    IF Len(a) # Len(b) THEN Len(a) < Len(b)
    ELSE BigMenorIgualDesde(a, b, Len(a))


(***************************************************************************)
(* State.                                                                  *)
(*   pc               position of the caller: "inicio", "tabla" (inside    *)
(*                    the loop of generar_tabla_amortizacion),             *)
(*                    "tabla_lista" (it returned), "abonos" (inside the    *)
(*                    loop of a replay function), "abonos_listos" (it      *)
(*                    returned), "fin", "error" (an exception was raised)  *)
(*   llamada          arguments of the active call                         *)
(*   tasa_periodo, n_periodos, cuota, saldo, periodo, filas                *)
(*                    locals of the active call (n_periodos is             *)
(*                    n_periodos_inicial inside a replay function)         *)
(*   tabla_sin_abonos the schedule returned by generar_tabla_amortizacion  *)
(*   ahorro           the result of calcular_ahorro_por_abonos             *)
(*   resultado        what a call made on its own returned or raised       *)
(*   abonos_programados, periodos_entre_abonos                             *)
(*                    locals of generar_abonos_programados (its list       *)
(*                    "abonos" and its step)                               *)
(* Amounts are rationals; the columns of a row are integer cents and Fecha *)
(* is the number of days since fecha_inicio.                               *)
(***************************************************************************)
VARIABLES pc, llamada, tasa_periodo, n_periodos, cuota, saldo, periodo,
          filas, tabla_sin_abonos, ahorro, resultado, abonos_programados,
          periodos_entre_abonos

vars == <<pc, llamada, tasa_periodo, n_periodos, cuota, saldo, periodo,
          filas, tabla_sin_abonos, ahorro, resultado, abonos_programados,
          periodos_entre_abonos>>

\* the variables that the credit endpoints leave alone
varsFunciones == <<resultado, abonos_programados, periodos_entre_abonos>>

SinResultado == [estado |-> "pendiente"]

SinAhorro == [calculado |-> FALSE]

Init ==
    /\ pc = "inicio"
    /\ llamada \in {[funcion |-> "generar_tabla_amortizacion", params |-> p] :
                        p \in {q \in ParametrosCredito : EnDominio(q)}}
    /\ tasa_periodo = Cero
    /\ n_periodos = 0
    /\ cuota = Cero
    /\ saldo = Cero
    /\ periodo = 0
    /\ filas = <<>>
    /\ tabla_sin_abonos = <<>>
    /\ ahorro = SinAhorro
    /\ resultado = SinResultado
    /\ abonos_programados = <<>>
    /\ periodos_entre_abonos = 0

\* a faulty row: it carries the number of the period before
FilaPeriodoAnterior(per, fecha_pago, c, interes, abono_capital, abono_extra, s) ==
    [Periodo |-> per - 1,
     Fecha |-> fecha_pago,
     Cuota |-> redondear_decimal(c),
     Interes |-> redondear_decimal(interes),
     Abono_Capital |-> redondear_decimal(abono_capital),
     Abono_Extra |-> redondear_decimal(abono_extra),
     Saldo |-> redondear_decimal(RMax(Cero, s))]

\* one row of a schedule, as appended to filas
Fila(per, fecha_pago, c, interes, abono_capital, abono_extra, s) ==
    [Periodo |-> per,
     Fecha |-> fecha_pago,
     Cuota |-> redondear_decimal(c),
     Interes |-> redondear_decimal(interes),
     Abono_Capital |-> redondear_decimal(abono_capital),
     Abono_Extra |-> redondear_decimal(abono_extra),
     Saldo |-> redondear_decimal(RMax(Cero, s))]

\* fecha_actual: fecha_inicio before the first row, then the last fecha_pago
FechaActual(fs) == IF fs = <<>> THEN 0 ELSE fs[Len(fs)].Fecha

(***************************************************************************)
(* generar_tabla_amortizacion                                              *)
(***************************************************************************)
\* lines 174-206: the period rate, the number of periods and the installment
GenerarTablaInicio ==
    /\ pc = "inicio"
    /\ LET p == llamada.params
           r == TasaPeriodo(p)
           n == NumeroPeriodos(p)
       IN  /\ tasa_periodo' = r
           /\ n_periodos' = n
           /\ IF cuota_frances_falla(p.monto, r, n)
              THEN /\ pc' = "error"
                   /\ UNCHANGED <<cuota, saldo, periodo>>
              ELSE /\ cuota' = calcular_cuota_frances(p.monto, r, n)
                   /\ saldo' = p.monto
                   /\ periodo' = 1
                   /\ pc' = IF n >= 1 THEN "tabla" ELSE "tabla_lista"
    /\ UNCHANGED <<llamada, filas, tabla_sin_abonos, ahorro>>
    /\ UNCHANGED varsFunciones

\* a faulty principal portion: the interest is not taken off the installment
AbonoCapitalSinInteres(c, interes) == c

\* abono_capital = cuota - interes
AbonoCapital(c, interes) == RResta(c, interes)

\* saldo after the body of the loop, lines 210-220
SaldoTrasPeriodo(s, c, r, per, n) ==
    LET interes == RMul(s, r)
        abono_capital == AbonoCapital(c, interes)
        nuevo == RResta(s, abono_capital)
    IN  IF per = n /\ RMenor(RAbs(nuevo), Tolerancia) THEN Cero ELSE nuevo

\* one iteration of "for periodo in range(1, n_periodos + 1)", lines 208-239
GenerarTablaPaso ==
    /\ pc = "tabla"
    /\ LET interes == RMul(saldo, tasa_periodo)
           abono_capital == AbonoCapital(cuota, interes)
           nuevo == SaldoTrasPeriodo(saldo, cuota, tasa_periodo, periodo, n_periodos)
           fecha_pago == FechaActual(filas)
                             + DiasASumar(llamada.params.frecuencia_pago)
       IN  /\ saldo' = nuevo
           /\ filas' = Append(filas,
                  Fila(periodo, fecha_pago, cuota, interes, abono_capital, Cero, nuevo))
           /\ IF RMenorIgual(nuevo, Cero) \/ periodo = n_periodos
              THEN pc' = "tabla_lista" /\ periodo' = periodo
              ELSE pc' = "tabla" /\ periodo' = periodo + 1
    /\ UNCHANGED <<llamada, tasa_periodo, n_periodos, cuota, tabla_sin_abonos, ahorro>>
    /\ UNCHANGED varsFunciones

(***************************************************************************)
(* backend/abonos.py                                                       *)
(***************************************************************************)
\* validar_abonos: every payment in a period 1..n_periodos with monto > 0
validar_abonos(abonos, n) ==
    \A i \in 1..Len(abonos) :
        /\ ~(abonos[i].periodo < 1 \/ abonos[i].periodo > n)
        /\ ~(abonos[i].monto <= 0)

\* a faulty lookup: the extraordinary payment of the period is never found
AbonoExtraPerdido(abonos, per) == Cero

\* a faulty lookup: the entries of one period are added up
RECURSIVE AbonoExtraSumado(_, _)
AbonoExtraSumado(abonos, per) ==
    IF abonos = <<>> THEN Cero
    ELSE LET resto == AbonoExtraSumado(Tail(abonos), per)
         IN  IF abonos[1].periodo = per
             THEN RSuma(Ent(abonos[1].monto), resto)
             ELSE resto

\* abonos_dict.get(periodo, 0.0) for abonos_dict = {a["periodo"]: a["monto"]
\* for a in abonos}: the last entry of a period overwrites the earlier ones
AbonoExtra(abonos, per) ==
    LET idx == {i \in 1..Len(abonos) : abonos[i].periodo = per}
    IN  IF idx = {} THEN Cero
        ELSE Ent(abonos[CHOOSE i \in idx : \A j \in idx : j <= i].monto)

\* the lists of extraordinary payments of the model: valid for n periods,
\* ordered by period, in the first periods or in the last one
PeriodosAbono(n) == {q \in 1..n : q <= MaxPeriodoAbono \/ q = n}

RECURSIVE ListasAbonosDe(_, _)
ListasAbonosDe(n, largo) ==
    IF largo = 0 THEN {<<>>}
    ELSE LET cortas == ListasAbonosDe(n, largo - 1)
         IN  cortas \cup
             {Append(l, [periodo |-> q, monto |-> m]) :
                 l \in {c \in cortas : Len(c) = largo - 1},
                 q \in PeriodosAbono(n), m \in MontosAbono}

ListasAbonos(n) ==
    {l \in ListasAbonosDe(n, MaxAbonos) :
        \A i \in 1..(Len(l) - 1) : l[i].periodo <= l[i + 1].periodo}

\* the caller passes the principal, the period rate and len(tabla_sin_abonos)
\* to aplicar_abonos_reducir_cuota / aplicar_abonos_reducir_plazo
\* (abonos.py lines 94-102 and 176-184 initialise the loop)
AplicarAbonosInicio ==
    /\ pc = "tabla_lista"
    /\ \E opcion \in {"reducir_cuota", "reducir_plazo"},
          abonos \in ListasAbonos(Len(filas)) :
          LET p == llamada.params
              n == Len(filas)
          IN  /\ llamada' = [funcion |-> IF opcion = "reducir_cuota"
                                         THEN "aplicar_abonos_reducir_cuota"
                                         ELSE "aplicar_abonos_reducir_plazo",
                             saldo_inicial |-> p.monto,
                             abonos |-> abonos,
                             frecuencia_pago |-> p.frecuencia_pago]
              /\ n_periodos' = n
              /\ saldo' = p.monto
              /\ cuota' = calcular_cuota_frances(p.monto, tasa_periodo, n)
              /\ periodo' = 1
              /\ pc' = IF RMenor(Tolerancia, p.monto) /\ 1 <= n * 2
                       THEN "abonos" ELSE "abonos_listos"
    /\ tabla_sin_abonos' = filas
    /\ filas' = <<>>
    /\ UNCHANGED <<tasa_periodo, ahorro>>
    /\ UNCHANGED varsFunciones

\* a faulty balance update: the extraordinary payment is added to the balance
SaldoTrasAbonoSumando(s, abono_capital, abono_extra) ==
    RSuma(RResta(s, abono_capital), abono_extra)

\* saldo = saldo - abono_capital - abono_extra
SaldoTrasAbono(s, abono_capital, abono_extra) ==
    RResta(RResta(s, abono_capital), abono_extra)

\* a faulty body: a negative balance is set to 0 and the principal portion
\* of the row is left as it was
PasoAbonoSinAjuste(s, r, c, abonos, per, fecha_actual, frecuencia_pago) ==
    LET interes == RMul(s, r)
        abono_capital == AbonoCapital(c, interes)
        abono_extra == AbonoExtra(abonos, per)
        bruto == SaldoTrasAbono(s, abono_capital, abono_extra)
        nuevo == IF RMenor(bruto, Cero) THEN Cero ELSE bruto
        fecha_pago == fecha_actual + DiasASumar(frecuencia_pago)
    IN  [saldo |-> nuevo,
         abono_capital |-> abono_capital,
         abono_extra |-> abono_extra,
         fila |-> Fila(per, fecha_pago, c, interes, abono_capital, abono_extra,
                       nuevo)]

\* the body shared by both loops (lines 106-134 and 188-216): the row of the
\* period and the balance after it, from the locals of the loop
PasoAbonoDe(s, r, c, abonos, per, fecha_actual, frecuencia_pago) ==
    LET interes == RMul(s, r)
        abono_capital == AbonoCapital(c, interes)
        abono_extra == AbonoExtra(abonos, per)
        bruto == SaldoTrasAbono(s, abono_capital, abono_extra)
        negativo == RMenor(bruto, Cero)
        capital == IF negativo THEN RSuma(abono_capital, bruto) ELSE abono_capital
        nuevo == IF negativo THEN Cero ELSE bruto
        fecha_pago == fecha_actual + DiasASumar(frecuencia_pago)
    IN  [saldo |-> nuevo,
         abono_capital |-> capital,
         abono_extra |-> abono_extra,
         fila |-> Fila(per, fecha_pago, c, interes, capital, abono_extra, nuevo)]

PasoAbono ==
    PasoAbonoDe(saldo, tasa_periodo, cuota, llamada.abonos, periodo,
                FechaActual(filas), llamada.frecuencia_pago)

\* faulty recomputations: one period too many left, the whole nominal term
\* instead of the periods left, and no recomputation at all
CuotaTrasAbonoPeriodoDeMas(c, abono_extra, s, r, n, per) ==
    IF RMenor(Cero, abono_extra) /\ RMenor(Tolerancia, s) /\ n - per > 0
    THEN calcular_cuota_frances(s, r, n - per + 1)
    ELSE c

CuotaTrasAbonoPlazoCompleto(c, abono_extra, s, r, n, per) ==
    IF RMenor(Cero, abono_extra) /\ RMenor(Tolerancia, s) /\ n - per > 0
    THEN calcular_cuota_frances(s, r, n)
    ELSE c

CuotaTrasAbonoSinRecalculo(c, abono_extra, s, r, n, per) == c

\* a faulty recomputation: after every period, extra payment or not, over the
\* whole nominal term
CuotaTrasAbonoCadaPeriodo(c, abono_extra, s, r, n, per) ==
    IF RMenor(Tolerancia, s) /\ n - per > 0
    THEN calcular_cuota_frances(s, r, n)
    ELSE c

\* the installment after a period of aplicar_abonos_reducir_cuota, lines 137-140
CuotaTrasAbono(c, abono_extra, s, r, n, per) ==
    IF RMenor(Cero, abono_extra) /\ RMenor(Tolerancia, s) /\ n - per > 0
    THEN calcular_cuota_frances(s, r, n - per)
    ELSE c

\* a faulty limit: three times the nominal term
TrasPeriodoLimiteTriple(s, per, n) ==
    IF RMenorIgual(s, Tolerancia) THEN "abonos_listos"
    ELSE IF RMenor(Tolerancia, s) /\ per <= n * 3 THEN "abonos"
    ELSE "abonos_listos"

\* where the loop goes after a period: "break" when saldo <= 0.01, else the
\* test "saldo > 0.01 and periodo <= n_periodos_inicial * 2" of the while
TrasPeriodo(s, per, n) ==
    IF RMenorIgual(s, Tolerancia) THEN "abonos_listos"
    ELSE IF RMenor(Tolerancia, s) /\ per <= n * 2 THEN "abonos"
    ELSE "abonos_listos"

\* one iteration of a replay loop; recalcular tells whether the loop holds the
\* block "if abono_extra > 0 and saldo > 0.01" that recomputes the installment
IteracionAbonos(recalcular) ==
    /\ LET paso == PasoAbono
       IN  /\ saldo' = paso.saldo
           /\ filas' = Append(filas, paso.fila)
           /\ cuota' = IF recalcular
                       THEN CuotaTrasAbono(cuota, paso.abono_extra, paso.saldo,
                                           tasa_periodo, n_periodos, periodo)
                       ELSE cuota
           /\ periodo' = periodo + 1
           /\ pc' = TrasPeriodo(paso.saldo, periodo + 1, n_periodos)
    /\ UNCHANGED <<llamada, tasa_periodo, n_periodos, tabla_sin_abonos, ahorro>>
    /\ UNCHANGED varsFunciones

\* one iteration of the loop of aplicar_abonos_reducir_cuota, lines 104-146
ReducirCuotaPaso ==
    /\ pc = "abonos"
    /\ llamada.funcion = "aplicar_abonos_reducir_cuota"
    /\ IteracionAbonos(TRUE)

\* a faulty reduce-term loop: it recomputes the installment like the other one
ReducirPlazoPasoRecalculando ==
    /\ pc = "abonos"
    /\ llamada.funcion = "aplicar_abonos_reducir_plazo"
    /\ IteracionAbonos(TRUE)

\* one iteration of the loop of aplicar_abonos_reducir_plazo, lines 186-224:
\* the installment does not change
ReducirPlazoPaso ==
    /\ pc = "abonos"
    /\ llamada.funcion = "aplicar_abonos_reducir_plazo"
    /\ IteracionAbonos(FALSE)

\* the sum of a column of a schedule
RECURSIVE SumaColumna(_, _)
SumaColumna(tabla, columna) ==
    IF tabla = <<>> THEN 0
    ELSE tabla[1][columna] + SumaColumna(Tail(tabla), columna)

\* a faulty comparison: the interest saved with the operands swapped
calcular_ahorro_invertido(sin_abonos, con_abonos) ==
    [calculado |-> TRUE,
     ahorro_intereses |->
         SumaColumna(con_abonos, "Interes") - SumaColumna(sin_abonos, "Interes"),
     reduccion_plazo_periodos |-> Len(sin_abonos) - Len(con_abonos),
     total_intereses_sin_abonos |-> SumaColumna(sin_abonos, "Interes"),
     total_intereses_con_abonos |-> SumaColumna(con_abonos, "Interes"),
     total_pagado_sin_abonos |-> SumaColumna(sin_abonos, "Cuota"),
     total_pagado_con_abonos |->
         SumaColumna(con_abonos, "Cuota") + SumaColumna(con_abonos, "Abono_Extra")]

\* calcular_ahorro_por_abonos(tabla_sin_abonos, tabla_con_abonos), in cents
calcular_ahorro_por_abonos(sin_abonos, con_abonos) ==
    LET total_pagado_sin_abonos == SumaColumna(sin_abonos, "Cuota")
        total_intereses_sin_abonos == SumaColumna(sin_abonos, "Interes")
        total_pagado_con_abonos ==
            SumaColumna(con_abonos, "Cuota") + SumaColumna(con_abonos, "Abono_Extra")
        total_intereses_con_abonos == SumaColumna(con_abonos, "Interes")
    IN  [calculado |-> TRUE,
         ahorro_intereses |->
             total_intereses_sin_abonos - total_intereses_con_abonos,
         reduccion_plazo_periodos |-> Len(sin_abonos) - Len(con_abonos),
         total_intereses_sin_abonos |-> total_intereses_sin_abonos,
         total_intereses_con_abonos |-> total_intereses_con_abonos,
         total_pagado_sin_abonos |-> total_pagado_sin_abonos,
         total_pagado_con_abonos |-> total_pagado_con_abonos]

\* the caller compares both schedules
CalcularAhorro ==
    /\ pc = "abonos_listos"
    /\ ahorro' = calcular_ahorro_por_abonos(tabla_sin_abonos, filas)
    /\ pc' = "fin"
    /\ UNCHANGED <<llamada, tasa_periodo, n_periodos, cuota, saldo, periodo,
                   filas, tabla_sin_abonos>>
    /\ UNCHANGED varsFunciones

Next ==
    \/ GenerarTablaInicio
    \/ GenerarTablaPaso
    \/ AplicarAbonosInicio
    \/ ReducirCuotaPaso
    \/ ReducirPlazoPaso
    \/ CalcularAhorro

Spec == Init /\ [][Next]_vars

(***************************************************************************)
(* Calls made on their own: pc = "llamada" before the call, "retorno" or   *)
(* "error" after it; llamada holds the arguments and resultado what the    *)
(* call returned or raised.                                                *)
(***************************************************************************)
\* the largest c in lo..hi with (num0 + c * paso) / den <= (bn / bd)^(1/q),
\* which holds at lo; num0, paso and den are big naturals
RECURSIVE MayorBajoRaiz(_, _, _, _, _, _, _)
MayorBajoRaiz(num0, paso, limite, bd, q, lo, hi) ==
    IF lo >= hi THEN lo
    ELSE LET c == (lo + hi + 1) \div 2
             cabe == BigMenorIgual(
                         BigMul(BigDe(bd),
                                BigPot(BigSuma(num0, BigMul(BigDe(c), paso)), q)),
                         limite)
         IN  IF cabe THEN MayorBajoRaiz(num0, paso, limite, bd, q, c, hi)
             ELSE MayorBajoRaiz(num0, paso, limite, bd, q, lo, c - 1)

\* redondear_decimal(K * ((bn / bd) ** (1 / q) - 1)) in cents, for K = kn / kd
\* (kn a big natural) and a value of at least half a cent: the largest
\* c = d + 1 with c - 1/2 <= 100 * K * (x - 1), that is
\* (200 kn + kd + 2 d kd) / (200 kn) <= x, for the root x
RedondeoConRaiz(kn, kd, bn, bd, q, tope) ==
    LET den == BigPorDigito(kn, 200)
        num0 == BigSuma(den, BigDe(kd))
        limite == BigMul(BigDe(bn), BigPot(den, q))
    IN  MayorBajoRaiz(num0, BigDe(2 * kd), limite, bd, q, 0, tope) + 1

\* int(1000000 * ((bn / bd) ** (1 / q) - 1)): the root in millionths
RaizEnMillonesimas(bn, bd, q) ==
    LET den == BigDe(1000000)
    IN  MayorBajoRaiz(den, <<1>>, BigMul(BigDe(bn), BigPot(den, q)), bd, q,
                      0, 1000000)

\* credits quoted per year and paid per month over whole years: the period
\* rate is the 12th root of 1 + tasa_efectiva_anual, less 1
ParametrosConRaiz ==
    [monto : {Ent(1000), Ent(100000)}, tasa : 1..MaxTasaConRaiz,
     tipo_tasa : {"nominal", "efectiva"}, tipo_pago : {"anticipada", "vencida"},
     plazo_meses : {12, 24}, frecuencia_pago : {"mensual"},
     frecuencia_tasa : {"anual"}]

\* generar_tabla_amortizacion up to its first row, for a period rate
\* (1 + tasa_efectiva_anual) ** (1 / q) - 1 and n_periodos = j * q periods:
\* (1 + tasa_periodo) ** n_periodos is then f = (1 + tasa_efectiva_anual)^j,
\* the installment is K * tasa_periodo for K = monto * f / (f - 1) and the
\* interest of the first period is monto * tasa_periodo
PrimeraFilaConRaiz(p) ==
    LET efectiva == TasaEfectivaAnual(p)
        base == RSuma(Uno, efectiva)
        exponente == RDiv(FRECUENCIAS[p.frecuencia_pago],
                          FRECUENCIAS[p.frecuencia_tasa])
        q == exponente[2]
        n == NumeroPeriodos(p)
        f == RPot(base, n \div q)
        monto == p.monto[1]
        tope == 200 * monto
    IN  [estado |-> "retorno",
         tasa_efectiva_anual |-> efectiva,
         tasa_periodo_millonesimas |-> RaizEnMillonesimas(base[1], base[2], q),
         n_periodos |-> n,
         primera_fila |->
             [Periodo |-> 1,
              Cuota |-> RedondeoConRaiz(BigMul(BigDe(monto), BigDe(f[1])),
                                        f[1] - f[2], base[1], base[2], q, tope),
              Interes |-> RedondeoConRaiz(BigDe(monto), 1, base[1], base[2],
                                          q, tope)]]

GenerarPrimeraFila ==
    /\ pc = "llamada"
    /\ llamada.funcion = "generar_tabla_amortizacion"
    /\ resultado' = PrimeraFilaConRaiz(llamada.params)
    /\ pc' = "retorno"
    /\ UNCHANGED <<llamada, tasa_periodo, n_periodos, cuota, saldo, periodo,
                   filas, tabla_sin_abonos, ahorro, abonos_programados,
                   periodos_entre_abonos>>

LlamadasTablaConRaiz ==
    {[funcion |-> "generar_tabla_amortizacion", params |-> p] :
        p \in ParametrosConRaiz}

(***************************************************************************)
(* abonos.py: generar_abonos_programados, one loop iteration per step.     *)
(***************************************************************************)
\* the largest n_periodos a call of generar_abonos_programados is given
MaxPeriodosProgramados == 8

\* the list is cut here when the loop of the source would never end
TopeProgramados == MaxPeriodosProgramados + 1

\* periodos_entre_abonos = int(meses_abono / meses_pago)
IntervaloAbonos(frecuencia_abono, frecuencia_pago) ==
    Truncar(RDiv(FRECUENCIAS[frecuencia_abono], FRECUENCIAS[frecuencia_pago]))

\* a faulty start of the loop: the first extra payment falls in period 1
PrimerPeriodoUno(intervalo) == 1

\* periodo = periodos_entre_abonos
PrimerPeriodoProgramado(intervalo) == intervalo

LlamadasProgramados ==
    [funcion : {"generar_abonos_programados"},
     frecuencia_abono : Frecuencias, frecuencia_pago : Frecuencias,
     monto_abono : {100, 400}, n_periodos : -1..MaxPeriodosProgramados]

ProgramadosInicio ==
    /\ pc = "llamada"
    /\ llamada.funcion = "generar_abonos_programados"
    /\ periodos_entre_abonos' =
           IntervaloAbonos(llamada.frecuencia_abono, llamada.frecuencia_pago)
    /\ abonos_programados' = <<>>
    /\ periodo' = PrimerPeriodoProgramado(periodos_entre_abonos')
    /\ n_periodos' = llamada.n_periodos
    /\ pc' = "programados"
    /\ UNCHANGED <<llamada, tasa_periodo, cuota, saldo, filas,
                   tabla_sin_abonos, ahorro, resultado>>

\* while periodo <= n_periodos: append, periodo += periodos_entre_abonos
ProgramadosPaso ==
    /\ pc = "programados"
    /\ periodo <= n_periodos
    /\ Len(abonos_programados) < TopeProgramados
    /\ abonos_programados' =
           Append(abonos_programados,
                  [periodo |-> periodo, monto |-> llamada.monto_abono,
                   tipo |-> "programado"])
    /\ periodo' = periodo + periodos_entre_abonos
    /\ UNCHANGED <<pc, llamada, tasa_periodo, n_periodos, cuota, saldo, filas,
                   tabla_sin_abonos, ahorro, resultado, periodos_entre_abonos>>

\* with the interval 0 the loop never leaves "periodo <= n_periodos": the list
\* grows until no entry fits any more and the append raises MemoryError;
\* TopeProgramados stands for the entries that fit
ProgramadosSinMemoria ==
    /\ pc = "programados"
    /\ periodo <= n_periodos
    /\ Len(abonos_programados) = TopeProgramados
    /\ resultado' = [estado |-> "error", excepcion |-> "MemoryError"]
    /\ pc' = "error"
    /\ UNCHANGED <<llamada, tasa_periodo, n_periodos, cuota, saldo, periodo,
                   filas, tabla_sin_abonos, ahorro, abonos_programados,
                   periodos_entre_abonos>>

\* return abonos
ProgramadosRetorno ==
    /\ pc = "programados"
    /\ periodo > n_periodos
    /\ resultado' = [estado |-> "retorno", abonos |-> abonos_programados]
    /\ pc' = "retorno"
    /\ UNCHANGED <<llamada, tasa_periodo, n_periodos, cuota, saldo, periodo,
                   filas, tabla_sin_abonos, ahorro, abonos_programados,
                   periodos_entre_abonos>>

(***************************************************************************)
(* calculos.py: calcular_cuota_frances called with any period count.       *)
(***************************************************************************)
\* n_periodos of a direct call ranges over -MaxPeriodosCuota..MaxPeriodosCuota
MaxPeriodosCuota == 4

LlamadasCuota ==
    [funcion : {"calcular_cuota_frances"},
     principal : {Ent(1000), Ent(2500)},
     tasa_periodo : {Cero, Rat(1, 10), Rat(1, 2)},
     n_periodos : -MaxPeriodosCuota..MaxPeriodosCuota]

CalcularCuotaFrances ==
    /\ pc = "llamada"
    /\ llamada.funcion = "calcular_cuota_frances"
    /\ IF cuota_frances_falla(llamada.principal, llamada.tasa_periodo,
                              llamada.n_periodos)
       THEN /\ resultado' = [estado |-> "error",
                             excepcion |-> "ZeroDivisionError"]
            /\ pc' = "error"
       ELSE /\ resultado' =
                   [estado |-> "retorno",
                    valor |-> calcular_cuota_frances(
                                  llamada.principal, llamada.tasa_periodo,
                                  llamada.n_periodos)]
            /\ pc' = "retorno"
    /\ UNCHANGED <<llamada, tasa_periodo, n_periodos, cuota, saldo, periodo,
                   filas, tabla_sin_abonos, ahorro, abonos_programados,
                   periodos_entre_abonos>>

(***************************************************************************)
(* avance 1/tasas.py: TasaInteres, the anticipated/due pair.               *)
(***************************************************************************)
\* the rates converted are 1/100, 2/100, ..., MaxTasaCentesimas/100
MaxTasaCentesimas == 98

\* TasaInteres.anticipada_a_vencida: tasa_anticipada / (1 - tasa_anticipada)
anticipada_a_vencida(tasa_anticipada) ==
    RDiv(tasa_anticipada, RResta(Uno, tasa_anticipada))

\* a faulty conversion back: the due rate is returned as it came
vencida_sin_convertir(tasa_vencida) == tasa_vencida

\* TasaInteres.vencida_a_anticipada: tasa_vencida / (1 + tasa_vencida)
vencida_a_anticipada(tasa_vencida) ==
    RDiv(tasa_vencida, RSuma(Uno, tasa_vencida))

\* rates from 1 on, where 1 - tasa_anticipada is zero or negative
TasasDesdeUno == {Ent(1), Rat(3, 2), Ent(2)}

LlamadasTasaInteres ==
    [funcion : {"anticipada_a_vencida"},
     tasa_anticipada : {Rat(k, 100) : k \in 1..MaxTasaCentesimas}
                           \cup TasasDesdeUno]

\* the division raises ZeroDivisionError when tasa_anticipada = 1
AnticipadaAVencida ==
    /\ pc = "llamada"
    /\ llamada.funcion = "anticipada_a_vencida"
    /\ IF RResta(Uno, llamada.tasa_anticipada) = Cero
       THEN /\ resultado' = [estado |-> "error",
                             excepcion |-> "ZeroDivisionError"]
            /\ pc' = "error"
       ELSE /\ resultado' =
                   [estado |-> "retorno",
                    vencida |-> anticipada_a_vencida(llamada.tasa_anticipada)]
            /\ pc' = "vencida"
    /\ UNCHANGED <<llamada, tasa_periodo, n_periodos, cuota, saldo, periodo,
                   filas, tabla_sin_abonos, ahorro, abonos_programados,
                   periodos_entre_abonos>>

\* calculos.py: convertir_anticipada_a_vencida called on its own
LlamadasConvertirAnticipada ==
    [funcion : {"convertir_anticipada_a_vencida"},
     tasa_anticipada : {Rat(k, 100) : k \in 1..MaxTasaCentesimas}]

ConvertirAnticipadaAVencida ==
    /\ pc = "llamada"
    /\ llamada.funcion = "convertir_anticipada_a_vencida"
    /\ resultado' =
           [estado |-> "retorno",
            vencida |-> convertir_anticipada_a_vencida(llamada.tasa_anticipada)]
    /\ pc' = "retorno"
    /\ UNCHANGED <<llamada, tasa_periodo, n_periodos, cuota, saldo, periodo,
                   filas, tabla_sin_abonos, ahorro, abonos_programados,
                   periodos_entre_abonos>>

\* the value returned is handed to vencida_a_anticipada
VencidaAAnticipada ==
    /\ pc = "vencida"
    /\ resultado' = [estado |-> "retorno",
                     vencida |-> resultado.vencida,
                     anticipada |-> vencida_a_anticipada(resultado.vencida)]
    /\ pc' = "retorno"
    /\ UNCHANGED <<llamada, tasa_periodo, n_periodos, cuota, saldo, periodo,
                   filas, tabla_sin_abonos, ahorro, abonos_programados,
                   periodos_entre_abonos>>

(***************************************************************************)
(* calculos.py: the two conversions between frequencies, on any pair of    *)
(* frequencies.  Their results are powers with a fractional exponent, kept *)
(* here as the pair of the base 1 + tasa and the exponent: the result is   *)
(* base ^ exponente - 1.  Two powers of one base above 1 are equal exactly *)
(* when their exponents are; a power of 1, or with the exponent 0, is 1.   *)
(***************************************************************************)
\* 1 + a rate, as a power
UnoMas(tasa) == [base |-> RSuma(Uno, tasa), exponente |-> Uno]

\* x ** e for a power x
Elevar(x, e) ==
    IF x.base = Uno \/ RMul(x.exponente, e) = Cero
    THEN [base |-> Uno, exponente |-> Uno]
    ELSE [base |-> x.base, exponente |-> RMul(x.exponente, e)]

\* a faulty table of days: the year of 360 days of the table of months
FrecuenciasDiasAnual360 ==
    [f \in Frecuencias |->
        CASE f = "diaria" -> 1
          [] f = "quincenal" -> 15
          [] f = "mensual" -> 30
          [] f = "bimestral" -> 60
          [] f = "trimestral" -> 90
          [] f = "cuatrimestral" -> 120
          [] f = "semestral" -> 180
          [] f = "anual" -> 360]

\* frequency -> days
FRECUENCIAS_DIAS ==
    [f \in Frecuencias |->
        CASE f = "diaria" -> 1
          [] f = "quincenal" -> 15
          [] f = "mensual" -> 30
          [] f = "bimestral" -> 60
          [] f = "trimestral" -> 90
          [] f = "cuatrimestral" -> 120
          [] f = "semestral" -> 180
          [] f = "anual" -> 365]

\* convertir_tasa_a_frecuencia_pago: tasa_diaria = (1 + tasa) ** (1 /
\* dias_origen) - 1, then (1 + tasa_diaria) ** dias_destino - 1; the value
\* is 1 + tasa_destino
convertir_tasa_a_frecuencia_pago(tasa, frecuencia_origen, frecuencia_destino) ==
    LET dias_origen == FRECUENCIAS_DIAS[frecuencia_origen]
        dias_destino == FRECUENCIAS_DIAS[frecuencia_destino]
        uno_mas_tasa_diaria == Elevar(UnoMas(tasa), Rat(1, dias_origen))
    IN  Elevar(uno_mas_tasa_diaria, Ent(dias_destino))

\* convertir_tasa_efectiva on any pair of frequencies:
\* (1 + tasa) ** (meses_destino / meses_origen) - 1; the value is
\* 1 + tasa_destino
TasaEfectivaComoPotencia(tasa, frecuencia_origen, frecuencia_destino) ==
    LET meses_origen == FRECUENCIAS[frecuencia_origen]
        meses_destino == FRECUENCIAS[frecuencia_destino]
    IN  Elevar(UnoMas(tasa), RDiv(meses_destino, meses_origen))

LlamadasConversion ==
    [funcion : {"convertir_tasa"},
     tasa : {Cero, Rat(12, 100), Rat(1, 2)},
     frecuencia_origen : Frecuencias, frecuencia_destino : Frecuencias]

\* both conversions are called with the same arguments
ConvertirPorDiasYPorMeses ==
    /\ pc = "llamada"
    /\ llamada.funcion = "convertir_tasa"
    /\ resultado' =
           [estado |-> "retorno",
            por_dias |-> convertir_tasa_a_frecuencia_pago(
                             llamada.tasa, llamada.frecuencia_origen,
                             llamada.frecuencia_destino),
            por_meses |-> TasaEfectivaComoPotencia(
                              llamada.tasa, llamada.frecuencia_origen,
                              llamada.frecuencia_destino)]
    /\ pc' = "retorno"
    /\ UNCHANGED <<llamada, tasa_periodo, n_periodos, cuota, saldo, periodo,
                   filas, tabla_sin_abonos, ahorro, abonos_programados,
                   periodos_entre_abonos>>

(***************************************************************************)
(* abonos.py: the replay functions called directly, with any list of       *)
(* extraordinary payments, and agregar_abono_adhoc on what they return.    *)
(***************************************************************************)
\* n_periodos_inicial of a direct call ranges over 0..MaxPeriodosReplay
MaxPeriodosReplay == 3

\* amounts of the entries of a direct call: the functions do not validate them
MontosReplay == {-200, 40}

EntradasReplay ==
    [periodo : 1..MaxPeriodoAbono, monto : MontosReplay]

\* no entry, one entry, or two entries in any order and on any periods
ListasReplay ==
    {<<>>} \cup {<<a>> : a \in EntradasReplay}
           \cup {<<a, b>> : a \in EntradasReplay, b \in EntradasReplay}

LlamadasReplay ==
    [funcion : {"aplicar_abonos_reducir_cuota", "aplicar_abonos_reducir_plazo"},
     saldo_inicial : {Rat(1, 100), Ent(100)},
     tasa_periodo : {Cero, Ent(1)},
     n_periodos_inicial : 0..MaxPeriodosReplay,
     abonos : ListasReplay,
     frecuencia_pago : {"mensual"},
     origen : {"directa"}]

\* generar_tabla_amortizacion called directly, next to the replay functions
LlamadasTablaDirecta ==
    {[funcion |-> "generar_tabla_amortizacion", params |-> p,
      origen |-> "directa"] : p \in {q \in ParametrosCredito : EnDominio(q)}}

InitReplay ==
    /\ \/ pc = "llamada" /\ llamada \in LlamadasReplay
       \/ pc = "inicio" /\ llamada \in LlamadasTablaDirecta
    /\ tasa_periodo = Cero
    /\ n_periodos = 0
    /\ cuota = Cero
    /\ saldo = Cero
    /\ periodo = 0
    /\ filas = <<>>
    /\ tabla_sin_abonos = <<>>
    /\ ahorro = SinAhorro
    /\ resultado = SinResultado
    /\ abonos_programados = <<>>
    /\ periodos_entre_abonos = 0

\* lines 94-104 and 176-186: the locals before the loop and its first test;
\* calcular_cuota_frances raises ZeroDivisionError when n_periodos_inicial = 0
ReplayInicio ==
    /\ pc = "llamada"
    /\ llamada.funcion \in {"aplicar_abonos_reducir_cuota",
                            "aplicar_abonos_reducir_plazo"}
    /\ IF cuota_frances_falla(llamada.saldo_inicial, llamada.tasa_periodo,
                              llamada.n_periodos_inicial)
       THEN /\ pc' = "error"
            /\ resultado' = [estado |-> "error",
                             excepcion |-> "ZeroDivisionError"]
            /\ UNCHANGED <<tasa_periodo, n_periodos, cuota, saldo, periodo>>
       ELSE /\ tasa_periodo' = llamada.tasa_periodo
            /\ n_periodos' = llamada.n_periodos_inicial
            /\ saldo' = llamada.saldo_inicial
            /\ cuota' = calcular_cuota_frances(
                            llamada.saldo_inicial, llamada.tasa_periodo,
                            llamada.n_periodos_inicial)
            /\ periodo' = 1
            /\ pc' = TrasPeriodo(llamada.saldo_inicial, 1,
                                 llamada.n_periodos_inicial)
            /\ UNCHANGED resultado
    /\ UNCHANGED <<llamada, filas, tabla_sin_abonos, ahorro,
                   abonos_programados, periodos_entre_abonos>>

\* if opcion_recalculo == "reducir_cuota": ... else: ...
FuncionReplay(opcion_recalculo) ==
    IF opcion_recalculo = "reducir_cuota"
    THEN "aplicar_abonos_reducir_cuota"
    ELSE "aplicar_abonos_reducir_plazo"

\* a replay as a function of its arguments: the rows of the loop, from the
\* rows fs already appended
RECURSIVE ReplayDesde(_, _, _, _, _, _, _, _)
ReplayDesde(recalcular, s, c, r, n, abonos, frecuencia_pago, fs) ==
    LET per == Len(fs) + 1
    IN  IF TrasPeriodo(s, per, n) # "abonos" THEN fs
        ELSE LET paso == PasoAbonoDe(s, r, c, abonos, per, FechaActual(fs),
                                     frecuencia_pago)
                 c2 == IF recalcular
                       THEN CuotaTrasAbono(c, paso.abono_extra, paso.saldo,
                                           r, n, per)
                       ELSE c
             IN  ReplayDesde(recalcular, paso.saldo, c2, r, n, abonos,
                             frecuencia_pago, Append(fs, paso.fila))

\* aplicar_abonos_reducir_cuota / aplicar_abonos_reducir_plazo (n >= 1)
TablaReplay(funcion, s, r, n, abonos, frecuencia_pago) ==
    ReplayDesde(funcion = "aplicar_abonos_reducir_cuota", s,
                calcular_cuota_frances(s, r, n), r, n, abonos,
                frecuencia_pago, <<>>)

\* sorted(abonos, key=lambda x: x["periodo"]): stable, so that of two entries
\* of one period the one that came later in the list stays later
RECURSIVE InsertarPorPeriodo(_, _)
InsertarPorPeriodo(l, a) ==
    IF l = <<>> THEN <<a>>
    ELSE IF l[Len(l)].periodo <= a.periodo THEN Append(l, a)
    ELSE Append(InsertarPorPeriodo(SubSeq(l, 1, Len(l) - 1), a), l[Len(l)])

RECURSIVE OrdenarPorPeriodo(_)
OrdenarPorPeriodo(l) ==
    IF l = <<>> THEN <<>>
    ELSE InsertarPorPeriodo(OrdenarPorPeriodo(SubSeq(l, 1, Len(l) - 1)),
                            l[Len(l)])

\* lines 261-268: the entries of the rows with Abono_Extra > 0; the amounts
\* of the model are whole units, so the cents of a row are a whole amount
RECURSIVE AbonosDeTabla(_)
AbonosDeTabla(tabla) ==
    IF tabla = <<>> THEN <<>>
    ELSE LET fila == tabla[Len(tabla)]
             antes == AbonosDeTabla(SubSeq(tabla, 1, Len(tabla) - 1))
         IN  IF fila.Abono_Extra > 0
             THEN Append(antes, [periodo |-> fila.Periodo,
                                 monto |-> fila.Abono_Extra \div 100])
             ELSE antes

\* lines 261-277: the entries of the rows, then the new one, sorted by period
AbonosConNuevo(tabla, nuevo) ==
    OrdenarPorPeriodo(Append(AbonosDeTabla(tabla), nuevo))

\* line 259: Saldo + Abono_Capital + Abono_Extra of the first row
SaldoInicialDeTabla(tabla) ==
    Rat(tabla[1].Saldo + tabla[1].Abono_Capital + tabla[1].Abono_Extra, 100)

\* line 280: n_periodos_inicial = len(tabla_actual)
PlazoDeTabla(tabla) == Len(tabla)

\* agregar_abono_adhoc(tabla_actual, periodo_abono, monto_abono, tasa_periodo,
\* opcion_recalculo, fecha_inicio, frecuencia_pago) on the schedule that a
\* direct call returned, with the period rate of that call: up to the first
\* test of the loop of the replay function it calls
AgregarAbonoAdhoc ==
    /\ pc = "abonos_listos"
    /\ llamada.origen = "directa"
    /\ \E periodo_abono \in 1..MaxPeriodoAbono, monto_abono \in {10, 40},
          opcion_recalculo \in {"reducir_cuota", "reducir_plazo"} :
          LET nuevo == [periodo |-> periodo_abono, monto |-> monto_abono]
              entrada == [tabla_actual |-> filas, nuevo |-> nuevo,
                          opcion_recalculo |-> opcion_recalculo,
                          previa |-> llamada]
          IN  IF Len(filas) = 0
              THEN /\ llamada' = [funcion |-> "agregar_abono_adhoc",
                                  origen |-> "agregar_abono_adhoc",
                                  adhoc |-> entrada]
                   /\ UNCHANGED <<pc, n_periodos, saldo, cuota, periodo, filas>>
              ELSE LET s == SaldoInicialDeTabla(filas)
                       n == PlazoDeTabla(filas)
                   IN  /\ llamada' =
                              [funcion |-> IF opcion_recalculo = "reducir_cuota"
                                           THEN "aplicar_abonos_reducir_cuota"
                                           ELSE "aplicar_abonos_reducir_plazo",
                               saldo_inicial |-> s,
                               tasa_periodo |-> tasa_periodo,
                               n_periodos_inicial |-> n,
                               abonos |-> AbonosConNuevo(filas, nuevo),
                               frecuencia_pago |-> llamada.frecuencia_pago,
                               origen |-> "agregar_abono_adhoc",
                               adhoc |-> entrada]
                       /\ n_periodos' = n
                       /\ saldo' = s
                       /\ cuota' = calcular_cuota_frances(s, tasa_periodo, n)
                       /\ periodo' = 1
                       /\ filas' = <<>>
                       /\ pc' = TrasPeriodo(s, 1, n)
    /\ UNCHANGED <<tasa_periodo, tabla_sin_abonos, ahorro, resultado,
                   abonos_programados, periodos_entre_abonos>>

NextReplay ==
    \/ GenerarTablaInicio
    \/ GenerarTablaPaso
    \/ ReplayInicio
    \/ ReducirCuotaPaso
    \/ ReducirPlazoPaso
    \/ AgregarAbonoAdhoc

SpecReplay == InitReplay /\ [][NextReplay]_vars

(***************************************************************************)
(* backend/utils.py: the validators, and backend/main.py: the endpoints,   *)
(* one request at a time.  A request has passed the Pydantic models (monto *)
(* > 0, 0 <= tasa <= 100, plazo_meses > 0, abonos with periodo > 0 and     *)
(* monto > 0); its strings are whatever the client sent.                   *)
(***************************************************************************)
\* the strings that datetime.strptime(fecha_inicio, "%Y-%m-%d") parses
FechasValidas == {"2024-01-01"}

\* validar_parametros_credito(params) -> (es_valido, mensaje)
validar_parametros_credito(params) ==
    IF RMenorIgual(params.monto, Cero)
    THEN [es_valido |-> FALSE, mensaje |-> <<"El monto debe ser mayor a 0">>]
    ELSE IF params.tasa < 0 \/ params.tasa > 100
    THEN [es_valido |-> FALSE,
          mensaje |-> <<"La tasa debe estar entre 0 y 100%">>]
    ELSE IF params.tipo_tasa \notin {"nominal", "efectiva"}
    THEN [es_valido |-> FALSE,
          mensaje |-> <<"El tipo de tasa debe ser 'nominal' o 'efectiva'">>]
    ELSE IF params.tipo_pago \notin {"anticipada", "vencida"}
    THEN [es_valido |-> FALSE,
          mensaje |-> <<"El tipo de pago debe ser 'anticipada' o 'vencida'">>]
    ELSE IF params.plazo_meses <= 0
    THEN [es_valido |-> FALSE,
          mensaje |-> <<"El plazo debe ser mayor a 0 meses">>]
    ELSE IF params.frecuencia_pago \notin Frecuencias
    THEN [es_valido |-> FALSE,
          mensaje |-> <<"La frecuencia de pago debe ser una de: ",
                        "diaria, quincenal, mensual, bimestral, trimestral, cuatrimestral, semestral, anual">>]
    ELSE IF params.fecha_inicio \notin FechasValidas
    THEN [es_valido |-> FALSE,
          mensaje |-> <<"La fecha debe estar en formato YYYY-MM-DD">>]
    ELSE IF RMenor(Ent(params.plazo_meses), FRECUENCIAS[params.frecuencia_pago])
    THEN [es_valido |-> FALSE,
          mensaje |-> <<"El plazo debe ser al menos ",
                        FRECUENCIAS[params.frecuencia_pago],
                        " meses para la frecuencia seleccionada">>]
    ELSE [es_valido |-> TRUE, mensaje |-> <<"Parámetros válidos">>]

\* validar_abono(periodo, monto, n_periodos_total) -> (es_valido, mensaje)
validar_abono(per, monto, n_periodos_total) ==
    IF per < 1 \/ per > n_periodos_total
    THEN [es_valido |-> FALSE,
          mensaje |-> <<"El periodo debe estar entre 1 y ", n_periodos_total>>]
    ELSE IF monto <= 0
    THEN [es_valido |-> FALSE,
          mensaje |-> <<"El monto del abono debe ser mayor a 0">>]
    ELSE [es_valido |-> TRUE, mensaje |-> <<"Abono válido">>]

\* validar_frecuencia_abono(frecuencia_abono, frecuencia_pago) ->
\* (es_valido, mensaje); meses_abono % meses_pago != 0 when the quotient of
\* the months is not a whole number
validar_frecuencia_abono(frecuencia_abono, frecuencia_pago) ==
    IF frecuencia_abono \notin Frecuencias
    THEN [es_valido |-> FALSE,
          mensaje |-> <<"Frecuencia de abono inválida: ", frecuencia_abono>>]
    ELSE IF frecuencia_pago \notin Frecuencias
    THEN [es_valido |-> FALSE,
          mensaje |-> <<"Frecuencia de pago inválida: ", frecuencia_pago>>]
    ELSE IF RMenor(FRECUENCIAS[frecuencia_abono], FRECUENCIAS[frecuencia_pago])
    THEN [es_valido |-> FALSE,
          mensaje |-> <<"La frecuencia de abono debe ser igual o mayor a la frecuencia de pago">>]
    ELSE IF RDiv(FRECUENCIAS[frecuencia_abono],
                 FRECUENCIAS[frecuencia_pago])[2] # 1
    THEN [es_valido |-> FALSE,
          mensaje |-> <<"La frecuencia de abono debe ser múltiplo exacto de la frecuencia de pago">>]
    ELSE [es_valido |-> TRUE, mensaje |-> <<"Frecuencias compatibles">>]

\* generar_tabla_amortizacion as a function of its arguments: the rows of
\* the loop of lines 208-239, from the rows fs already appended
RECURSIVE TablaBaseDesde(_, _, _, _, _, _)
TablaBaseDesde(s, c, r, n, frecuencia_pago, fs) ==
    LET per == Len(fs) + 1
    IN  IF per > n THEN fs
        ELSE LET interes == RMul(s, r)
                 nuevo == SaldoTrasPeriodo(s, c, r, per, n)
                 fila == Fila(per, FechaActual(fs) + DiasASumar(frecuencia_pago),
                              c, interes, AbonoCapital(c, interes), Cero, nuevo)
             IN  IF RMenorIgual(nuevo, Cero) THEN Append(fs, fila)
                 ELSE TablaBaseDesde(nuevo, c, r, n, frecuencia_pago,
                                     Append(fs, fila))

\* generar_tabla_amortizacion(**params), for params that the validator
\* accepts (n_periodos >= 1)
TablaBase(params) ==
    TablaBaseDesde(params.monto,
                   calcular_cuota_frances(params.monto, TasaPeriodo(params),
                                          NumeroPeriodos(params)),
                   TasaPeriodo(params), NumeroPeriodos(params),
                   params.frecuencia_pago, <<>>)

\* generar_abonos_programados as a function of its arguments, for an
\* interval of at least one period: the entries from the period per on
RECURSIVE ProgramadosDesde(_, _, _, _)
ProgramadosDesde(per, intervalo, monto_abono, n) ==
    IF per > n THEN <<>>
    ELSE <<[periodo |-> per, monto |-> monto_abono, tipo |-> "programado"]>>
             \o ProgramadosDesde(per + intervalo, intervalo, monto_abono, n)

ListaProgramados(frecuencia_abono, frecuencia_pago, monto_abono, n) ==
    ProgramadosDesde(
        PrimerPeriodoProgramado(IntervaloAbonos(frecuencia_abono, frecuencia_pago)),
        IntervaloAbonos(frecuencia_abono, frecuencia_pago), monto_abono, n)

\* raise HTTPException(status_code=400, detail=mensaje)
Lanzada(mensaje) ==
    [lanzada |-> TRUE,
     excepcion |-> [tipo |-> "HTTPException", status_code |-> 400,
                    detail |-> mensaje]]

\* return {...}
Devuelto(cuerpo) == [lanzada |-> FALSE, cuerpo |-> cuerpo]

\* the first abono that validar_abono rejects, 0 when there is none
PrimerAbonoRechazado(abonos, n) ==
    LET malos == {i \in 1..Len(abonos) :
                     ~validar_abono(abonos[i].periodo, abonos[i].monto, n).es_valido}
    IN  IF malos = {} THEN 0 ELSE CHOOSE i \in malos : \A j \in malos : i <= j

\* the body of "try:" of calcular_amortizacion, lines 101-125
IntentoCalcular(pet) ==
    LET v == validar_parametros_credito(pet.params)
    IN  IF ~v.es_valido THEN Lanzada(v.mensaje)
        ELSE Devuelto([tabla |-> TablaBase(pet.params),
                       mensaje |-> "Tabla generada exitosamente"])

\* the body of "try:" of obtener_resumen, lines 341-366
IntentoResumen(pet) ==
    LET v == validar_parametros_credito(pet.params)
    IN  IF ~v.es_valido THEN Lanzada(v.mensaje)
        ELSE Devuelto([numero_cuotas |-> Len(TablaBase(pet.params)),
                       mensaje |-> "Resumen calculado exitosamente"])

\* the replay of both endpoints with extraordinary payments
TablaConAbonos(pet, n, abonos_list) ==
    TablaReplay(FuncionReplay(pet.opcion_recalculo), pet.params.monto,
                TasaPeriodo(pet.params), n, abonos_list,
                pet.params.frecuencia_pago)

\* the body of "try:" of calcular_con_abonos, lines 139-228
IntentoConAbonos(pet) ==
    LET v == validar_parametros_credito(pet.params)
    IN  IF ~v.es_valido THEN Lanzada(v.mensaje)
        ELSE LET tabla == TablaBase(pet.params)
                 n == Len(tabla)
                 malo == PrimerAbonoRechazado(pet.abonos, n)
             IN  IF pet.abonos = <<>>
                 THEN Devuelto([tabla |-> tabla,
                                mensaje |-> "Tabla sin abonos generada"])
                 ELSE IF malo # 0
                 THEN Lanzada(validar_abono(pet.abonos[malo].periodo,
                                            pet.abonos[malo].monto, n).mensaje)
                 ELSE Devuelto(
                          [tabla |-> TablaConAbonos(pet, n, pet.abonos),
                           mensaje |-> "Tabla con abonos generada exitosamente"])

\* the body of "try:" of calcular_con_abonos_programados, lines 240-329
IntentoProgramados(pet) ==
    LET v == validar_parametros_credito(pet.params)
        vf == validar_frecuencia_abono(pet.frecuencia_abono,
                                       pet.params.frecuencia_pago)
    IN  IF ~v.es_valido THEN Lanzada(v.mensaje)
        ELSE IF ~vf.es_valido THEN Lanzada(vf.mensaje)
        ELSE LET n == Len(TablaBase(pet.params))
                 abonos_list == ListaProgramados(
                                    pet.frecuencia_abono,
                                    pet.params.frecuencia_pago,
                                    pet.monto_abono, n)
             IN  Devuelto(
                     [tabla |-> TablaConAbonos(pet, n, abonos_list),
                      abonos_programados |-> abonos_list,
                      mensaje |-> "Tabla con abonos programados generada exitosamente"])

\* "except Exception as e: raise HTTPException(status_code=500,
\* detail=f"{prefijo}{str(e)}")" around the body: the HTTPException raised
\* in the body is an Exception, so it is caught and replaced as well; the
\* detail keeps the exception e whose text str(e) it holds
RespuestaDe(intento, prefijo) ==
    IF intento.lanzada
    THEN [status_code |-> 500,
          detail |-> [prefijo |-> prefijo, e |-> intento.excepcion]]
    ELSE [status_code |-> 200, cuerpo |-> intento.cuerpo]

ParametrosPeticion ==
    [monto : {Ent(1000)}, tasa : {0},
     tipo_tasa : {"nominal", "efectiva", "compuesta"},
     tipo_pago : {"vencida", "adelantada"},
     plazo_meses : {2, 12},
     frecuencia_pago : {"mensual", "trimestral", "semanal"},
     fecha_inicio : {"2024-01-01", "01/01/2024"},
     frecuencia_tasa : {"anual"}]

AbonosPeticion ==
    {<<>>,
     <<[periodo |-> 1, monto |-> 100]>>,
     <<[periodo |-> 13, monto |-> 100]>>,
     <<[periodo |-> 1, monto |-> 100], [periodo |-> 5, monto |-> 100]>>}

Peticiones ==
    [endpoint : {"/calcular", "/resumen"}, params : ParametrosPeticion]
    \cup [endpoint : {"/calcular-con-abonos"}, params : ParametrosPeticion,
          abonos : AbonosPeticion,
          opcion_recalculo : {"reducir_cuota", "reducir_plazo"}]
    \cup [endpoint : {"/calcular-con-abonos-programados"},
          params : ParametrosPeticion,
          frecuencia_abono : {"mensual", "trimestral", "cuatrimestral",
                              "semanal"},
          monto_abono : {100},
          opcion_recalculo : {"reducir_cuota", "reducir_plazo"}]

InitHttp ==
    /\ pc = "peticion"
    /\ llamada \in Peticiones
    /\ tasa_periodo = Cero
    /\ n_periodos = 0
    /\ cuota = Cero
    /\ saldo = Cero
    /\ periodo = 0
    /\ filas = <<>>
    /\ tabla_sin_abonos = <<>>
    /\ ahorro = SinAhorro
    /\ resultado = SinResultado
    /\ abonos_programados = <<>>
    /\ periodos_entre_abonos = 0

\* the endpoint answers: resultado is the HTTP response
Responder(respuesta) ==
    /\ resultado' = respuesta
    /\ pc' = "respuesta"
    /\ UNCHANGED <<llamada, tasa_periodo, n_periodos, cuota, saldo, periodo,
                   filas, tabla_sin_abonos, ahorro, abonos_programados,
                   periodos_entre_abonos>>

\* POST /calcular
calcular_amortizacion ==
    /\ pc = "peticion"
    /\ llamada.endpoint = "/calcular"
    /\ Responder(RespuestaDe(IntentoCalcular(llamada), "Error al calcular: "))

\* POST /calcular-con-abonos
calcular_con_abonos ==
    /\ pc = "peticion"
    /\ llamada.endpoint = "/calcular-con-abonos"
    /\ Responder(RespuestaDe(IntentoConAbonos(llamada), "Error al calcular: "))

\* POST /calcular-con-abonos-programados
calcular_con_abonos_programados ==
    /\ pc = "peticion"
    /\ llamada.endpoint = "/calcular-con-abonos-programados"
    /\ Responder(RespuestaDe(IntentoProgramados(llamada),
                             "Error al calcular: "))

\* POST /resumen
obtener_resumen ==
    /\ pc = "peticion"
    /\ llamada.endpoint = "/resumen"
    /\ Responder(RespuestaDe(IntentoResumen(llamada),
                             "Error al calcular resumen: "))

NextHttp ==
    \/ calcular_amortizacion
    \/ calcular_con_abonos
    \/ calcular_con_abonos_programados
    \/ obtener_resumen

SpecHttp == InitHttp /\ [][NextHttp]_vars

(***************************************************************************)
(* utils.py and calculos.py: validar_parametros_credito and then, for the  *)
(* parameters it accepts, generar_tabla_amortizacion on them, as the       *)
(* callers of the two functions do.                                        *)
(***************************************************************************)
\* FRECUENCIAS[frecuencia_origen], FRECUENCIAS[frecuencia_destino] in
\* convertir_tasa_efectiva: KeyError for a key that the table does not hold
tasa_efectiva_falla(frecuencia_origen, frecuencia_destino) ==
    \/ frecuencia_origen \notin DOMAIN FRECUENCIAS
    \/ frecuencia_destino \notin DOMAIN FRECUENCIAS

\* the credit parameters of a validated call: the rate 0 for a yearly rate,
\* an effective rate per month otherwise; "semanal" is in no table
ParametrosPorValidar ==
    [monto : {Ent(1000)}, tasa : {0},
     tipo_tasa : {"nominal", "efectiva", "compuesta"},
     tipo_pago : {"vencida", "anticipada"},
     plazo_meses : {0, 2, 3},
     frecuencia_pago : {"mensual", "trimestral"},
     fecha_inicio : {"2024-01-01", "01/01/2024"},
     frecuencia_tasa : {"anual", "mensual", "semanal"}]
    \cup
    [monto : {Ent(1000)}, tasa : {10},
     tipo_tasa : {"efectiva"},
     tipo_pago : {"vencida"},
     plazo_meses : {0, 2, 3},
     frecuencia_pago : {"mensual"},
     fecha_inicio : {"2024-01-01"},
     frecuencia_tasa : {"mensual", "semanal"}]

LlamadasValidarYGenerar ==
    [funcion : {"validar_parametros_credito"}, params : ParametrosPorValidar]

\* es_valido, mensaje = validar_parametros_credito(params); if es_valido:
\* generar_tabla_amortizacion(**params)
ValidarYGenerar ==
    /\ pc = "llamada"
    /\ llamada.funcion = "validar_parametros_credito"
    /\ LET p == llamada.params
           v == validar_parametros_credito(p)
       IN  IF ~v.es_valido
           THEN /\ resultado' = [estado |-> "rechazado", mensaje |-> v.mensaje]
                /\ pc' = "rechazado"
           ELSE IF tasa_efectiva_falla(p.frecuencia_tasa, p.frecuencia_pago)
           THEN /\ resultado' = [estado |-> "error", excepcion |-> "KeyError"]
                /\ pc' = "error"
           ELSE /\ resultado' = [estado |-> "retorno", tabla |-> TablaBase(p)]
                /\ pc' = "retorno"
    /\ UNCHANGED <<llamada, tasa_periodo, n_periodos, cuota, saldo, periodo,
                   filas, tabla_sin_abonos, ahorro, abonos_programados,
                   periodos_entre_abonos>>

(***************************************************************************)
(* The calls made on their own, as one system.                             *)
(***************************************************************************)
LlamadasFunciones ==
    LlamadasTablaConRaiz \cup LlamadasProgramados \cup LlamadasCuota
        \cup LlamadasTasaInteres \cup LlamadasConvertirAnticipada
        \cup LlamadasConversion
        \cup LlamadasValidarYGenerar

InitFunciones ==
    /\ pc = "llamada"
    /\ llamada \in LlamadasFunciones
    /\ tasa_periodo = Cero
    /\ n_periodos = 0
    /\ cuota = Cero
    /\ saldo = Cero
    /\ periodo = 0
    /\ filas = <<>>
    /\ tabla_sin_abonos = <<>>
    /\ ahorro = SinAhorro
    /\ resultado = SinResultado
    /\ abonos_programados = <<>>
    /\ periodos_entre_abonos = 0

NextFunciones ==
    \/ GenerarPrimeraFila
    \/ ProgramadosInicio
    \/ ProgramadosPaso
    \/ ProgramadosSinMemoria
    \/ ProgramadosRetorno
    \/ CalcularCuotaFrances
    \/ AnticipadaAVencida
    \/ VencidaAAnticipada
    \/ ConvertirAnticipadaAVencida
    \/ ConvertirPorDiasYPorMeses
    \/ ValidarYGenerar

SpecFunciones == InitFunciones /\ [][NextFunciones]_vars

(***************************************************************************)
(* generar_abonos_programados alone, with a loop that goes on running: a   *)
(* call that can take a step takes it.                                     *)
(***************************************************************************)
InitProgramados == InitFunciones /\ llamada \in LlamadasProgramados

NextProgramados ==
    \/ ProgramadosInicio
    \/ ProgramadosPaso
    \/ ProgramadosSinMemoria
    \/ ProgramadosRetorno

SpecProgramados ==
    InitProgramados /\ [][NextProgramados]_vars /\ WF_vars(NextProgramados)

(***************************************************************************)
(* Properties of the schedules.                                            *)
(***************************************************************************)
EnTabla == llamada.funcion = "generar_tabla_amortizacion"
EnReducirCuota == llamada.funcion = "aplicar_abonos_reducir_cuota"
EnReducirPlazo == llamada.funcion = "aplicar_abonos_reducir_plazo"

\* a replay function has returned
ReplayTerminado == pc \in {"abonos_listos", "fin"}

\* the principal of the active call, and its value in cents
Principal == IF EnTabla THEN llamada.params.monto ELSE llamada.saldo_inicial

PrincipalCentavos == redondear_decimal(Principal)

\* the term holds at least one payment period (the test "plazo_meses <
\* meses_por_periodo" of validar_parametros_credito does not reject it)
PlazoCubreUnPeriodo(p) ==
    ~RMenor(Ent(p.plazo_meses), FRECUENCIAS[p.frecuencia_pago])

\* the row shows Cuota = Interes + Abono_Capital within one cent
Descompuesta(fila) == Abs(fila.Cuota - fila.Interes - fila.Abono_Capital) <= 1

\* C1 as the specification states it: every call of
\* generar_tabla_amortizacion with a principal > 0, a rate in 0..100, a term
\* > 0 and any of the 8 payment frequencies returns a schedule whose last row
\* has Saldo 0 within 0.01.  A term shorter than one payment period refutes it.
C1_CierreTodaLlamada ==
    /\ pc # "error"
    /\ pc = "tabla_lista" => /\ filas # <<>>
                             /\ filas[Len(filas)].Saldo <= 1

\* C1, amended: a call of generar_tabla_amortizacion whose term holds at least
\* one payment period returns a schedule and the Saldo of its last row is 0
\* within 0.01; with a shorter term n_periodos is 0 and the call raises
\* instead of returning a schedule.
C1_CierreTablaBase ==
    /\ pc = "error" => /\ EnTabla
                       /\ ~PlazoCubreUnPeriodo(llamada.params)
                       /\ n_periodos = 0
    /\ pc = "tabla_lista" => /\ PlazoCubreUnPeriodo(llamada.params)
                             /\ filas # <<>>
                             /\ filas[Len(filas)].Saldo <= 1

C1_Testigo ==
    /\ pc = "tabla_lista"
    /\ RMenor(Cero, tasa_periodo)
    /\ Len(filas) >= 3
    /\ filas[Len(filas)].Saldo = 0
    /\ filas[1].Saldo > 0

\* C2 as the specification states it: for a principal > 0, a period rate >= 0,
\* n_periodos_inicial >= 1 and valid extraordinary payments, the schedule
\* returned by either replay function has at most n_periodos_inicial rows and
\* the Saldo of its last row is 0 within 0.01.  A principal of 0.01 or less,
\* for which the loop never runs and no row is returned, refutes it.
C2_CierreTodoPrincipal ==
    (ReplayTerminado /\ validar_abonos(llamada.abonos, n_periodos)) =>
        /\ filas # <<>>
        /\ Len(filas) <= n_periodos
        /\ filas[Len(filas)].Saldo <= 1

\* C2, amended: for a principal above 0.01 and valid extraordinary payments
\* the schedule returned by either replay function has between 1 and
\* n_periodos_inicial rows and the Saldo of its last row is 0 within 0.01; for
\* a principal of 0.01 or less it has no rows.
C2_CierreConAbonos ==
    (ReplayTerminado /\ validar_abonos(llamada.abonos, n_periodos)) =>
        IF RMenor(Tolerancia, Principal)
        THEN /\ filas # <<>>
             /\ Len(filas) <= n_periodos
             /\ filas[Len(filas)].Saldo <= 1
        ELSE filas = <<>>

C2_Testigo ==
    /\ pc = "abonos_listos"
    /\ EnReducirCuota
    /\ RMenor(Cero, tasa_periodo)
    /\ Len(llamada.abonos) = 2
    /\ llamada.abonos[1].periodo < llamada.abonos[2].periodo
    /\ Len(filas) = n_periodos
    /\ n_periodos >= 3
    /\ filas[Len(filas)].Saldo = 0

\* the Saldo column never increases from the principal and is never negative
SaldoNoCreciente(tabla, principal_centavos) ==
    \A i \in 1..Len(tabla) :
        /\ tabla[i].Saldo >= 0
        /\ tabla[i].Saldo <= (IF i = 1 THEN principal_centavos
                                       ELSE tabla[i - 1].Saldo)

\* C3: in the schedules of generar_tabla_amortizacion and of both replay
\* functions the Saldo of the first row is at most the principal, the Saldo of
\* every later row is at most that of the row before it, and no Saldo is
\* negative.
C3_SaldoMonotono ==
    /\ SaldoNoCreciente(filas, PrincipalCentavos)
    /\ SaldoNoCreciente(tabla_sin_abonos, PrincipalCentavos)

C3_Testigo ==
    /\ pc = "abonos_listos"
    /\ EnReducirPlazo
    /\ llamada.abonos # <<>>
    /\ Len(filas) >= 3
    /\ Len(tabla_sin_abonos) > Len(filas)
    /\ \A i \in 2..Len(filas) : filas[i].Saldo < filas[i - 1].Saldo

\* C4: every row of the schedule of generar_tabla_amortizacion shows Cuota =
\* Interes + Abono_Capital within 0.01 on the rounded values, and has
\* Abono_Extra = 0.
C4_DescomposicionTablaBase ==
    /\ EnTabla => \A i \in 1..Len(filas) :
                      Descompuesta(filas[i]) /\ filas[i].Abono_Extra = 0
    /\ \A i \in 1..Len(tabla_sin_abonos) :
           /\ Descompuesta(tabla_sin_abonos[i])
           /\ tabla_sin_abonos[i].Abono_Extra = 0

C4_Testigo ==
    /\ pc = "tabla_lista"
    /\ Len(filas) >= 2
    /\ \E i \in 1..Len(filas) :
           /\ filas[i].Interes > 0
           /\ filas[i].Cuota - filas[i].Interes - filas[i].Abono_Capital # 0

\* C5: every row of a schedule returned by a replay function, the last one
\* whose overshoot was absorbed included, shows Cuota = Interes +
\* Abono_Capital within 0.01.
C5_DescomposicionConAbonos ==
    ~EnTabla => \A i \in 1..Len(filas) : Descompuesta(filas[i])

\* some row of the schedule shows an extraordinary payment
AbonoAplicado == \E i \in 1..Len(filas) : filas[i].Abono_Extra > 0

\* entry i of the list is the one that counts for its period: no later entry
\* names the same period
AbonoVigente(abonos, i) ==
    \A j \in (i + 1)..Len(abonos) : abonos[j].periodo # abonos[i].periodo

\* C6 as the specification states it: with a positive period rate, whenever
\* at least one positive extraordinary payment is applied,
\* aplicar_abonos_reducir_plazo returns fewer rows than n_periodos_inicial.
\* A payment in the last period, or one too small, refutes it.
C6_PlazoSiempreMenor ==
    (ReplayTerminado /\ EnReducirPlazo /\ RMenor(Cero, tasa_periodo)
        /\ AbonoAplicado) => Len(filas) < n_periodos

\* C6, amended: with a positive period rate aplicar_abonos_reducir_plazo
\* never returns more rows than n_periodos_inicial, and it returns fewer when
\* the extraordinary payment of some period before the last one is at least
\* the fixed installment.
C6_PlazoReducido ==
    (ReplayTerminado /\ EnReducirPlazo /\ RMenor(Cero, tasa_periodo)) =>
        /\ Len(filas) <= n_periodos
        /\ (\E i \in 1..Len(llamada.abonos) :
               /\ AbonoVigente(llamada.abonos, i)
               /\ llamada.abonos[i].periodo < n_periodos
               /\ RMenorIgual(cuota, Ent(llamada.abonos[i].monto)))
           => Len(filas) < n_periodos

C6_Testigo ==
    /\ pc = "abonos_listos"
    /\ EnReducirPlazo
    /\ RMenor(Cero, tasa_periodo)
    /\ Len(filas) >= 2
    /\ Len(filas) < n_periodos
    /\ filas[2].Abono_Extra >= filas[2].Cuota
    /\ filas[1].Abono_Extra = 0

\* C7 as the specification states it: with valid extraordinary payments
\* aplicar_abonos_reducir_cuota returns exactly n_periodos_inicial rows.  A
\* payment that covers the outstanding balance refutes it.
C7_FilasIgualPlazo ==
    (ReplayTerminado /\ EnReducirCuota /\ AbonoAplicado
        /\ validar_abonos(llamada.abonos, n_periodos)) =>
        Len(filas) = n_periodos

\* C7, amended: in aplicar_abonos_reducir_cuota the installment in force
\* always amortizes the outstanding balance over exactly the periods left up
\* to n_periodos_inicial, so the schedule never has more rows than
\* n_periodos_inicial and has fewer only when a period before the last one
\* leaves a balance of 0.01 or less.
C7_PlazoAnclado ==
    EnReducirCuota =>
        /\ pc = "abonos" =>
               /\ periodo <= n_periodos
               /\ cuota = calcular_cuota_frances(
                              saldo, tasa_periodo, n_periodos - periodo + 1)
        /\ ReplayTerminado =>
               /\ Len(filas) <= n_periodos
               /\ Len(filas) < n_periodos => RMenorIgual(saldo, Tolerancia)

C7_Testigo ==
    /\ pc = "abonos_listos"
    /\ EnReducirCuota
    /\ RMenor(Cero, tasa_periodo)
    /\ Len(filas) = n_periodos
    /\ n_periodos >= 3
    /\ filas[1].Abono_Extra > 0
    /\ filas[2].Cuota < filas[1].Cuota

\* C8: every row of a schedule of aplicar_abonos_reducir_plazo shows as Cuota
\* the rounded calcular_cuota_frances(saldo_inicial, tasa_periodo,
\* n_periodos_inicial), whatever payments were applied before the row.
C8_CuotaFija ==
    EnReducirPlazo =>
        \A i \in 1..Len(filas) :
            filas[i].Cuota =
                redondear_decimal(calcular_cuota_frances(
                    llamada.saldo_inicial, tasa_periodo, n_periodos))

C8_Testigo ==
    /\ pc = "abonos_listos"
    /\ EnReducirPlazo
    /\ RMenor(Cero, tasa_periodo)
    /\ Len(filas) >= 3
    /\ filas[1].Abono_Extra > 0
    /\ filas[2].Abono_Extra > 0
    /\ filas[3].Cuota > 0

\* C9: in aplicar_abonos_reducir_cuota the row of period p shows the
\* installment in force before p; when p carries a payment > 0, leaves a
\* balance above 0.01 and p < n_periodos_inicial, the installment from p + 1
\* on is calcular_cuota_frances(balance after p, tasa_periodo,
\* n_periodos_inicial - p); otherwise the installment is left unchanged.
C9_ReglaRecalculo ==
    [][(pc = "abonos" /\ EnReducirCuota) =>
          LET fila == filas'[Len(filas')]
          IN  /\ Len(filas') = Len(filas) + 1
              /\ fila.Periodo = periodo
              /\ fila.Cuota = redondear_decimal(cuota)
              /\ IF /\ fila.Abono_Extra > 0
                    /\ RMenor(Tolerancia, saldo')
                    /\ periodo < n_periodos
                 THEN cuota' = calcular_cuota_frances(
                                   saldo', tasa_periodo, n_periodos - periodo)
                 ELSE cuota' = cuota]_vars

C9_Testigo ==
    /\ pc = "abonos"
    /\ EnReducirCuota
    /\ RMenor(Cero, tasa_periodo)
    /\ periodo = 3
    /\ filas[2].Abono_Extra > 0
    /\ filas[1].Abono_Extra = 0
    /\ redondear_decimal(cuota) < filas[2].Cuota
    /\ filas[2].Cuota = filas[1].Cuota

EscenarioNominalAnual ==
    /\ pc = "retorno"
    /\ llamada = [funcion |-> "generar_tabla_amortizacion",
                  params |-> [monto |-> Ent(100000), tasa |-> 12,
                              tipo_tasa |-> "nominal", tipo_pago |-> "vencida",
                              plazo_meses |-> 12, frecuencia_pago |-> "mensual",
                              frecuencia_tasa |-> "anual"]]

\* C11 as the specification states it: the scenario uses the effective annual
\* rate (1 + 0.12/12)^12 - 1 and its first row shows the Cuota 8884.88.
C11_EscenarioDoceCapitalizaciones ==
    EscenarioNominalAnual =>
        /\ BigMul(BigDe(resultado.tasa_efectiva_anual[1]
                            + resultado.tasa_efectiva_anual[2]),
                  BigPot(BigDe(100), 12))
               = BigMul(BigDe(resultado.tasa_efectiva_anual[2]),
                        BigPot(BigDe(101), 12))
        /\ resultado.primera_fila.Cuota = 888488

\* C11, amended: frecuencia_tasa "anual" means one capitalization per year,
\* so the scenario uses the effective annual rate (1 + 0.12/1)^1 - 1 = 0.12,
\* the monthly rate 1.12^(1/12) - 1 = 0.009488..., 12 periods, and its first
\* row shows the Cuota 8856.21 (and the Interes 948.88).
C11_EscenarioNominalAnual ==
    EscenarioNominalAnual =>
        /\ resultado.tasa_efectiva_anual = Rat(12, 100)
        /\ resultado.tasa_periodo_millonesimas = 9488
        /\ resultado.n_periodos = 12
        /\ resultado.primera_fila.Periodo = 1
        /\ resultado.primera_fila.Cuota = 885621
        /\ resultado.primera_fila.Interes = 94888

C11_Testigo ==
    /\ EscenarioNominalAnual
    /\ resultado.estado = "retorno"
    /\ resultado.primera_fila.Cuota > resultado.primera_fila.Interes

\* generar_abonos_programados has returned
ProgramadosDevueltos ==
    /\ pc = "retorno"
    /\ llamada.funcion = "generar_abonos_programados"

\* meses_abono / meses_pago of the call, exactly
RazonFrecuencias ==
    RDiv(FRECUENCIAS[llamada.frecuencia_abono],
         FRECUENCIAS[llamada.frecuencia_pago])

\* the extra-payment frequency is an exact multiple k >= 1 of the payment
\* frequency
MultiploExacto == RazonFrecuencias[2] = 1 /\ RazonFrecuencias[1] >= 1

\* C12: when the extra-payment frequency is an exact multiple k >= 1 of the
\* payment frequency, generar_abonos_programados returns exactly one entry
\* for each of the periods k, 2k, 3k, ... up to n_periodos, in increasing
\* order, each with monto = monto_abono and tipo "programado".
C12_UnAbonoCadaKPeriodos ==
    (ProgramadosDevueltos /\ MultiploExacto) =>
        LET k == RazonFrecuencias[1]
            esperados ==
                IF llamada.n_periodos < k THEN 0 ELSE llamada.n_periodos \div k
        IN  /\ Len(resultado.abonos) = esperados
            /\ \A i \in 1..esperados :
                   resultado.abonos[i] =
                       [periodo |-> i * k, monto |-> llamada.monto_abono,
                        tipo |-> "programado"]

C12_Testigo ==
    /\ ProgramadosDevueltos
    /\ MultiploExacto
    /\ RazonFrecuencias[1] = 3
    /\ Len(resultado.abonos) = 2
    /\ resultado.abonos[2].periodo = 6

\* C13: generar_abonos_programados fails, returning no list, whenever the
\* extra-payment frequency lasts fewer months than the payment frequency or
\* is not an exact multiple of it (e.g. "cuatrimestral" with "trimestral").
C13_IncompatibleNoDevuelveLista ==
    (llamada.funcion = "generar_abonos_programados" /\ ~MultiploExacto) =>
        pc # "retorno"

\* what the call does with such a pair: a list with one entry every
\* int(meses_abono / meses_pago) periods when that interval is at least 1; with
\* the interval 0 the empty list for a negative n_periodos, and otherwise a
\* loop that appends period 0 for ever
C13_IncompatibleDevuelveLista ==
    /\ ProgramadosDevueltos
    /\ llamada.frecuencia_abono = "cuatrimestral"
    /\ llamada.frecuencia_pago = "trimestral"
    /\ llamada.n_periodos = 8
    /\ Len(resultado.abonos) = 8
    /\ \A i \in 1..8 : resultado.abonos[i].periodo = i

\* C16: calcular_cuota_frances fails with an error for every n_periodos <= 0,
\* zero and negative alike, at a zero and at a non-zero rate.
C16_CuotaFallaSinPeriodos ==
    (/\ llamada.funcion = "calcular_cuota_frances"
     /\ llamada.n_periodos <= 0
     /\ pc # "llamada") => pc = "error"

\* what the call does with a negative n_periodos: it returns a negative
\* installment, principal / n_periodos at the rate 0
C16_CuotaNegativaDevuelta ==
    /\ pc = "retorno"
    /\ llamada.funcion = "calcular_cuota_frances"
    /\ llamada.n_periodos < 0
    /\ RMenor(resultado.valor, Cero)

\* an anticipated rate was converted to a due rate and that one back
IdaYVueltaHecha ==
    /\ pc = "retorno"
    /\ llamada.funcion = "anticipada_a_vencida"

\* C20: for every rate r in (0, 0.99), converting the anticipated rate r to a
\* due rate with TasaInteres.anticipada_a_vencida and that due rate back
\* with TasaInteres.vencida_a_anticipada returns r.
C20_IdaYVueltaAnticipada ==
    IdaYVueltaHecha => resultado.anticipada = llamada.tasa_anticipada

C20_Testigo ==
    /\ IdaYVueltaHecha
    /\ llamada.tasa_anticipada = Rat(98, 100)
    /\ resultado.vencida = Ent(49)
    /\ resultado.anticipada = Rat(49, 50)

(***************************************************************************)
(* Properties of the replay functions called directly.                     *)
(***************************************************************************)
\* a replay function called directly has returned
ReplayDirectoDevuelto ==
    pc = "abonos_listos" /\ llamada.origen = "directa"

\* the loop of the model and the replay as a function build the same rows
ReplayComoFuncion ==
    ReplayDirectoDevuelto =>
        filas = TablaReplay(llamada.funcion, llamada.saldo_inicial,
                            llamada.tasa_periodo, llamada.n_periodos_inicial,
                            llamada.abonos, llamada.frecuencia_pago)

\* agregar_abono_adhoc has returned a schedule
AdhocDevuelto ==
    pc = "abonos_listos" /\ llamada.origen = "agregar_abono_adhoc"

\* C14: for a schedule T that a replay returned for the principal P, the
\* period rate r, the nominal term n and the valid extras E,
\* agregar_abono_adhoc(T, p, a, r, policy) returns the rows of the chosen
\* replay called directly with P, n and E plus (p, a), sorted by period.
C14_AdhocIgualReplayDirecto ==
    (/\ AdhocDevuelto
     /\ validar_abonos(Append(llamada.adhoc.previa.abonos, llamada.adhoc.nuevo),
                       llamada.adhoc.previa.n_periodos_inicial)) =>
        filas = TablaReplay(
                    FuncionReplay(llamada.adhoc.opcion_recalculo),
                    llamada.adhoc.previa.saldo_inicial,
                    llamada.adhoc.previa.tasa_periodo,
                    llamada.adhoc.previa.n_periodos_inicial,
                    OrdenarPorPeriodo(Append(llamada.adhoc.previa.abonos,
                                             llamada.adhoc.nuevo)),
                    llamada.adhoc.previa.frecuencia_pago)

\* what the call does with a schedule that an extra payment has shortened:
\* the term of the recomputation is the number of rows of T, not n
C14_AdhocPlazoAcortado ==
    /\ AdhocDevuelto
    /\ llamada.adhoc.previa.n_periodos_inicial = 3
    /\ llamada.adhoc.previa.abonos = <<[periodo |-> 1, monto |-> 40]>>
    /\ Len(llamada.adhoc.tabla_actual) = 2
    /\ llamada.n_periodos_inicial = 2
    /\ llamada.saldo_inicial = Ent(100)
    /\ llamada.tasa_periodo = Cero
    /\ filas # <<>>
    /\ filas[1].Cuota = 5000

\* the last entry of the list for the period per, when there is one
UltimaEntrada(abonos, per) ==
    LET idx == {i \in 1..Len(abonos) : abonos[i].periodo = per}
    IN  CHOOSE i \in idx : \A j \in idx : j <= i

\* C15: when the list given to a replay holds two entries for one period, the
\* row of that period carries the amount of the later entry only, never the
\* sum; and when agregar_abono_adhoc adds a payment on a period that carries
\* an extra already, the row of that period carries the new amount.
C15_UltimaEntradaGana ==
    (pc \in {"abonos", "abonos_listos"}
         /\ llamada.funcion # "agregar_abono_adhoc") =>
        \A f \in 1..Len(filas) :
            /\ (\E i \in 1..Len(llamada.abonos) :
                    llamada.abonos[i].periodo = filas[f].Periodo)
                   => filas[f].Abono_Extra =
                          100 * llamada.abonos[
                                    UltimaEntrada(llamada.abonos,
                                                  filas[f].Periodo)].monto
            /\ (llamada.origen = "agregar_abono_adhoc"
                    /\ llamada.adhoc.nuevo.periodo = filas[f].Periodo)
                   => filas[f].Abono_Extra = 100 * llamada.adhoc.nuevo.monto

C15_Testigo ==
    /\ AdhocDevuelto
    /\ llamada.funcion # "agregar_abono_adhoc"
    /\ llamada.abonos = <<[periodo |-> 1, monto |-> 40],
                          [periodo |-> 1, monto |-> 10]>>
    /\ llamada.adhoc.tabla_actual[1].Abono_Extra = 4000
    /\ filas # <<>>
    /\ filas[1].Abono_Extra = 1000

\* C17: when a replay loop has executed 2 x n_periodos_inicial iterations and
\* the balance is still above 0.01, the call signals a failure instead of
\* returning a schedule.
C17_LimiteEsFallo ==
    (/\ llamada.funcion \in {"aplicar_abonos_reducir_cuota",
                             "aplicar_abonos_reducir_plazo"}
     /\ n_periodos >= 1
     /\ Len(filas) = 2 * n_periodos
     /\ RMenor(Tolerancia, saldo)) => pc = "error"

\* C18: a replay loop starts an iteration only when fewer than
\* 2 x n_periodos_inicial have been executed, and the schedule returned has
\* at most 2 x n_periodos_inicial rows (with n_periodos_inicial = 0 the call
\* raises before the loop and returns no schedule).
C18_ReplayAcotado ==
    /\ pc = "abonos" => /\ periodo = Len(filas) + 1
                        /\ Len(filas) < 2 * n_periodos
    /\ pc = "abonos_listos" => Len(filas) <= 2 * n_periodos
    /\ (pc # "llamada"
            /\ llamada.funcion \in {"aplicar_abonos_reducir_cuota",
                                    "aplicar_abonos_reducir_plazo"}
            /\ llamada.n_periodos_inicial = 0) => pc = "error"

C18_Testigo ==
    /\ pc = "abonos_listos"
    /\ llamada.origen = "directa"
    /\ llamada.n_periodos_inicial = 2
    /\ Len(filas) = 4
    /\ filas[4].Saldo > 1

(***************************************************************************)
(* Properties of the endpoints.                                            *)
(***************************************************************************)
\* the message of the validator that rejects the request inside its
\* endpoint, <<>> when none does
MensajeDeRechazo ==
    LET intento ==
            CASE llamada.endpoint = "/calcular" -> IntentoCalcular(llamada)
              [] llamada.endpoint = "/resumen" -> IntentoResumen(llamada)
              [] llamada.endpoint = "/calcular-con-abonos" ->
                     IntentoConAbonos(llamada)
              [] llamada.endpoint = "/calcular-con-abonos-programados" ->
                     IntentoProgramados(llamada)
    IN  IF intento.lanzada THEN intento.excepcion.detail ELSE <<>>

\* C19: whenever validar_parametros_credito, validar_abono or
\* validar_frecuencia_abono rejects the request inside an endpoint, the HTTP
\* response has the status 400 and its detail is the message of the validator.
C19_RechazoEs400 ==
    (pc = "respuesta" /\ MensajeDeRechazo # <<>>) =>
        /\ resultado.status_code = 400
        /\ resultado.detail = MensajeDeRechazo

\* what the endpoints answer to a rejected request: the status 500
C19_RechazoEs500 ==
    /\ pc = "respuesta"
    /\ llamada.endpoint = "/calcular"
    /\ llamada.params.tipo_tasa = "compuesta"
    /\ resultado.status_code = 500
    /\ resultado.detail.prefijo = "Error al calcular: "
    /\ resultado.detail.e.status_code = 400

(***************************************************************************)
(* Further properties of the calls made on their own.                      *)
(***************************************************************************)
\* C21: the conversion with the formula r / (1 - r),
\* TasaInteres.anticipada_a_vencida, fails for every rate r >= 1, for r = 1
\* and for r > 1, instead of returning a value.
C21_FallaDesdeUno ==
    (/\ llamada.funcion = "anticipada_a_vencida"
     /\ RMenorIgual(Uno, llamada.tasa_anticipada)
     /\ pc # "llamada") => pc = "error"

\* what the call does with a rate above 1: it returns a negative rate
C21_TasaNegativaDevuelta ==
    /\ llamada.funcion = "anticipada_a_vencida"
    /\ llamada.tasa_anticipada = Rat(3, 2)
    /\ pc = "vencida"
    /\ resultado.vencida = Ent(-3)

\* an anticipated-to-due conversion of the repository has returned
AnticipadaConvertida ==
    /\ llamada.funcion \in {"anticipada_a_vencida",
                            "convertir_anticipada_a_vencida"}
    /\ pc \in {"vencida", "retorno"}

\* C22: both anticipated-to-due conversions of the repository,
\* convertir_anticipada_a_vencida and TasaInteres.anticipada_a_vencida,
\* return r / (1 + r) for the anticipated rate r, a due rate smaller than r
\* for r > 0 (and so the same due rate for the same r).
C22_AmbasDividenPorUnoMasTasa ==
    AnticipadaConvertida =>
        /\ resultado.vencida =
               RDiv(llamada.tasa_anticipada,
                    RSuma(Uno, llamada.tasa_anticipada))
        /\ RMenor(resultado.vencida, llamada.tasa_anticipada)

\* what TasaInteres.anticipada_a_vencida returns: r / (1 - r), above r
C22_TasaInteresDivideDistinto ==
    /\ AnticipadaConvertida
    /\ llamada.funcion = "anticipada_a_vencida"
    /\ llamada.tasa_anticipada = Rat(1, 5)
    /\ resultado.vencida = Rat(1, 4)

\* C23: in every schedule that generar_tabla_amortizacion,
\* aplicar_abonos_reducir_cuota, aplicar_abonos_reducir_plazo or
\* agregar_abono_adhoc builds, the Periodo of the first row is 1 and the
\* Periodo of every other row is that of the row before plus 1, also when
\* the loop exits before the nominal term.
C23_PeriodosSinHuecos ==
    \A i \in 1..Len(filas) : filas[i].Periodo = i

\* a replay returned a schedule that ends before its term of 3 periods
C23_Testigo ==
    /\ ReplayDirectoDevuelto
    /\ llamada.funcion = "aplicar_abonos_reducir_plazo"
    /\ llamada.n_periodos_inicial = 3
    /\ Len(filas) = 2
    /\ filas[1].Periodo = 1
    /\ filas[2].Periodo = 2

\* both conversions have returned for two different frequencies
ConversionHecha ==
    /\ pc = "retorno"
    /\ llamada.funcion = "convertir_tasa"
    /\ llamada.frecuencia_origen # llamada.frecuencia_destino

\* the exponents that the two conversions apply to 1 + tasa
ExponentePorDias ==
    Rat(FRECUENCIAS_DIAS[llamada.frecuencia_destino],
        FRECUENCIAS_DIAS[llamada.frecuencia_origen])

ExponentePorMeses ==
    RDiv(FRECUENCIAS[llamada.frecuencia_destino],
         FRECUENCIAS[llamada.frecuencia_origen])

\* C24 as the specification states it: for the same rate and the same two
\* different frequencies the two conversions apply different exponents and
\* return different results.
C24_SiempreDistintas ==
    ConversionHecha =>
        /\ ExponentePorDias # ExponentePorMeses
        /\ resultado.por_dias # resultado.por_meses

\* C24, amended: the two tables differ in "anual" alone (365 days against
\* 12 months of 30 days), so for two different frequencies the exponents
\* differ exactly when one of the two is "anual", and the results differ
\* exactly when one of the two is "anual" and the rate is not 0; for every
\* other pair both conversions apply the same exponent and agree.
C24_DistintasSoloConAnual ==
    ConversionHecha =>
        LET conAnual == "anual" \in {llamada.frecuencia_origen,
                                     llamada.frecuencia_destino}
        IN  /\ (ExponentePorDias # ExponentePorMeses) <=> conAnual
            /\ (resultado.por_dias # resultado.por_meses)
                   <=> (conAnual /\ llamada.tasa # Cero)

C24_Testigo ==
    /\ ConversionHecha
    /\ llamada.frecuencia_origen = "anual"
    /\ llamada.frecuencia_destino = "mensual"
    /\ llamada.tasa = Rat(12, 100)
    /\ resultado.por_dias = [base |-> Rat(112, 100), exponente |-> Rat(30, 365)]
    /\ resultado.por_meses = [base |-> Rat(112, 100), exponente |-> Rat(1, 12)]

\* C25: generar_abonos_programados terminates and returns a list for every
\* pair of frequencies of the table, an extra-payment frequency shorter than
\* the payment frequency included, and every n_periodos >= 0.
C25_ProgramadosTermina ==
    (pc = "llamada" /\ llamada.funcion = "generar_abonos_programados"
        /\ llamada.n_periodos >= 0) ~> (pc = "retorno")

\* what the call does when the extra-payment frequency is the shorter one:
\* the interval is int(1/3) = 0, periodo stays 0 <= n_periodos and the loop
\* appends period 0 again and again, until it ends in MemoryError
C25_CicloSinFin ==
    /\ pc = "programados"
    /\ llamada.frecuencia_abono = "mensual"
    /\ llamada.frecuencia_pago = "trimestral"
    /\ llamada.n_periodos = 0
    /\ periodos_entre_abonos = 0
    /\ periodo = 0
    /\ Len(abonos_programados) = TopeProgramados
    /\ \A i \in 1..Len(abonos_programados) : abonos_programados[i].periodo = 0

(***************************************************************************)
(* Further properties of the replays.                                      *)
(***************************************************************************)
\* a replay function is in its loop or has returned
EnReplay ==
    /\ pc \in {"abonos", "abonos_listos"}
    /\ llamada.funcion \in {"aplicar_abonos_reducir_cuota",
                            "aplicar_abonos_reducir_plazo"}

\* the sum of abono_capital + abono_extra, not rounded, of the iterations
\* per .. hasta of a replay whose locals before iteration per are s and c
RECURSIVE CapitalPagadoDesde(_, _, _, _, _, _, _, _, _)
CapitalPagadoDesde(recalcular, s, c, r, n, abonos, frecuencia_pago, per, hasta) ==
    IF per > hasta THEN Cero
    ELSE LET paso == PasoAbonoDe(s, r, c, abonos, per, 0, frecuencia_pago)
             c2 == IF recalcular
                   THEN CuotaTrasAbono(c, paso.abono_extra, paso.saldo, r, n,
                                       per)
                   ELSE c
         IN  RSuma(RSuma(paso.abono_capital, paso.abono_extra),
                   CapitalPagadoDesde(recalcular, paso.saldo, c2, r, n, abonos,
                                      frecuencia_pago, per + 1, hasta))

\* over the rows that the replay under way has emitted
CapitalPagado ==
    CapitalPagadoDesde(llamada.funcion = "aplicar_abonos_reducir_cuota",
                       llamada.saldo_inicial,
                       calcular_cuota_frances(llamada.saldo_inicial,
                                              tasa_periodo, n_periodos),
                       tasa_periodo, n_periodos, llamada.abonos,
                       llamada.frecuencia_pago, 1, Len(filas))

\* C26: after any number of iterations of a replay, of either kind, the
\* initial principal is the current balance plus the sum over the emitted
\* rows of principal portion + extra payment, on the values before rounding;
\* when the overshoot clamp closes the schedule the balance is 0 and the sum
\* is the initial principal.
C26_PrincipalConservado ==
    EnReplay => llamada.saldo_inicial = RSuma(saldo, CapitalPagado)

\* the schedule closed through the clamp: 100 at the rate 0 over 3 periods
\* with 40 paid in period 1; the third row would leave 26.67 - 33.33 < 0
C26_Testigo ==
    /\ EnReplay
    /\ pc = "abonos_listos"
    /\ llamada.funcion = "aplicar_abonos_reducir_plazo"
    /\ llamada.saldo_inicial = Ent(100)
    /\ tasa_periodo = Cero
    /\ n_periodos = 3
    /\ llamada.abonos = <<[periodo |-> 1, monto |-> 40]>>
    /\ Len(filas) = 2
    /\ saldo = Cero
    /\ filas[2].Abono_Capital < filas[2].Cuota
    /\ CapitalPagado = Ent(100)

\* the extras of the replay under way have a period in 1..n and an amount
\* above 0 that is at most the initial principal
ExtrasValidosHastaPrincipal ==
    /\ validar_abonos(llamada.abonos, n_periodos)
    /\ \A i \in 1..Len(llamada.abonos) :
           RMenorIgual(Ent(llamada.abonos[i].monto), llamada.saldo_inicial)

\* C27: in every row of a replayed schedule, of either kind, with a period
\* rate >= 0 and extras with a period in 1..n and an amount above 0 and at
\* most the initial principal, Abono_Capital >= 0, also in the row where an
\* extra payment larger than the balance left triggers the overshoot clamp.
C27_AbonoCapitalNoNegativo ==
    (EnReplay /\ RMenorIgual(Cero, tasa_periodo) /\ ExtrasValidosHastaPrincipal)
        => \A i \in 1..Len(filas) : filas[i].Abono_Capital >= 0

\* what the clamp does when the extra payment alone exceeds the balance left
\* after the installment: abono_capital += saldo takes the whole excess out of
\* the principal portion, which goes below 0
C27_AbonoCapitalNegativo ==
    /\ EnReplay
    /\ ExtrasValidosHastaPrincipal
    /\ Len(filas) >= 1
    /\ filas[Len(filas)].Abono_Extra > 0
    /\ filas[Len(filas)].Abono_Capital < 0
    /\ filas[Len(filas)].Saldo = 0

\* a replay has returned for extras that pass validar_abono against the
\* baseline length n and fall on different periods
ReplayDeExtrasDistintos ==
    /\ EnReplay
    /\ pc = "abonos_listos"
    /\ validar_abonos(llamada.abonos, n_periodos)
    /\ \A i, j \in 1..Len(llamada.abonos) :
           i # j => llamada.abonos[i].periodo # llamada.abonos[j].periodo

\* the sum of the amounts of a list of extras, in cents
RECURSIVE SumaMontos(_)
SumaMontos(abonos) ==
    IF abonos = <<>> THEN 0
    ELSE abonos[1].monto * 100 + SumaMontos(Tail(abonos))

\* C28: no accepted extra payment is lost: each extra of a list with
\* different periods that passes validar_abono against the baseline length is
\* the Abono_Extra of the row of its period in the replayed schedule, under
\* both policies, and the Abono_Extra column adds up to the supplied amounts.
C28_NingunAbonoPerdido ==
    ReplayDeExtrasDistintos =>
        /\ \A i \in 1..Len(llamada.abonos) :
               \E k \in 1..Len(filas) :
                   /\ filas[k].Periodo = llamada.abonos[i].periodo
                   /\ filas[k].Abono_Extra = llamada.abonos[i].monto * 100
        /\ SumaColumna(filas, "Abono_Extra") = SumaMontos(llamada.abonos)

\* what the replay does with an extra whose period comes after the balance
\* is paid off: the loop has ended, the row of that period is never emitted
C28_AbonoPerdido ==
    /\ ReplayDeExtrasDistintos
    /\ Len(llamada.abonos) = 2
    /\ Len(filas) < llamada.abonos[2].periodo
    /\ SumaColumna(filas, "Abono_Extra") = llamada.abonos[1].monto * 100

\* a replay has returned; the schedule of the other replay function for the
\* same arguments
ReplayDevuelto == EnReplay /\ pc = "abonos_listos"

TablaOtraPolitica ==
    TablaReplay(IF llamada.funcion = "aplicar_abonos_reducir_cuota"
                THEN "aplicar_abonos_reducir_plazo"
                ELSE "aplicar_abonos_reducir_cuota",
                llamada.saldo_inicial, tasa_periodo, n_periodos,
                llamada.abonos, llamada.frecuencia_pago)

\* the periods whose extra payment, as the loops look it up, is above 0
PeriodosConAbono ==
    {per \in 1..(2 * n_periodos) :
        RMenor(Cero, AbonoExtra(llamada.abonos, per))}

\* the rows of the periods 1..hasta of two schedules are the same rows
MismasFilasHasta(t1, t2, hasta) ==
    \A k \in 1..hasta :
        /\ (k <= Len(t1)) <=> (k <= Len(t2))
        /\ k <= Len(t1) => t1[k] = t2[k]

\* C29: the two policies differ only after an extra payment: for the same
\* arguments aplicar_abonos_reducir_cuota and aplicar_abonos_reducir_plazo
\* emit the same rows for every period up to and including the first one
\* with a positive extra payment, and with no extras the same schedule.
C29_IgualesHastaPrimerAbono ==
    ReplayDevuelto =>
        /\ PeriodosConAbono # {} =>
               MismasFilasHasta(
                   filas, TablaOtraPolitica,
                   CHOOSE per \in PeriodosConAbono :
                       \A otro \in PeriodosConAbono : per <= otro)
        /\ PeriodosConAbono = {} => filas = TablaOtraPolitica

\* 100 at the rate 0 over 3 periods with 40 paid in period 1: the rows of
\* period 1 agree and the rows of period 2 do not
C29_Testigo ==
    /\ ReplayDevuelto
    /\ llamada.funcion = "aplicar_abonos_reducir_cuota"
    /\ llamada.saldo_inicial = Ent(100)
    /\ tasa_periodo = Cero
    /\ n_periodos = 3
    /\ llamada.abonos = <<[periodo |-> 1, monto |-> 40]>>
    /\ Len(filas) = 3
    /\ Len(TablaOtraPolitica) = 2
    /\ filas[1] = TablaOtraPolitica[1]
    /\ filas[2].Cuota < TablaOtraPolitica[2].Cuota

\* validar_parametros_credito has accepted the parameters of the call
ParametrosAceptados ==
    /\ pc # "llamada"
    /\ llamada.funcion = "validar_parametros_credito"
    /\ validar_parametros_credito(llamada.params).es_valido

\* C30: validation is sufficient for generation: for every parameter set
\* that validar_parametros_credito accepts, whatever its frecuencia_tasa,
\* generar_tabla_amortizacion raises no error and returns a schedule of at
\* least one row.
C30_ValidadoGeneraTabla ==
    ParametrosAceptados =>
        /\ resultado.estado = "retorno"
        /\ Len(resultado.tabla) >= 1

\* what happens with a frecuencia_tasa that the validator does not look at
\* and the table of frequencies does not hold
C30_FrecuenciaTasaDesconocida ==
    /\ ParametrosAceptados
    /\ llamada.params.frecuencia_tasa = "semanal"
    /\ pc = "error"
    /\ resultado = [estado |-> "error", excepcion |-> "KeyError"]

\* with a frecuencia_tasa of the table the accepted parameters give a schedule
C30_TablaGenerada ==
    /\ ParametrosAceptados
    /\ llamada.params.frecuencia_tasa = "mensual"
    /\ llamada.params.tasa = 10
    /\ llamada.params.plazo_meses = 2
    /\ pc = "retorno"
    /\ Len(resultado.tabla) = 2


=============================================================================
